---------------------------- MODULE Spec2Model ----------------------------
(***************************************************************************)
(* hybrid_memory: the short-term session cache (ShortTermMemoryManager),   *)
(* the long-term store (LongTermMemoryEngine, SimpleVectorStore) and the   *)
(* coordinator (MemoryProcessor), as state machines.                      *)
(*                                                                         *)
(* Time is the wall clock in whole seconds (`now`): the short-term table   *)
(* stamps a row with strftime('%s','now').                                 *)
(***************************************************************************)
EXTENDS Integers, Sequences, FiniteSets, TLC

(***************************************************************************)
(* Bounds of the model and constants of the program.                       *)
(***************************************************************************)
MaxId == 2            \* rows ever inserted into short_term_memories (Spec)
MaxTime == 1          \* the clock runs over 0..MaxTime
MaxLogW == 52         \* rows inserted under SpecWindow
MaxCalls == 41        \* handle_message calls of one session under SpecCoord
MaxCallsS == 22       \* handle_message calls of one session under SpecSuspend
MaxInflight == 2      \* summarizations of one session suspended at the same time
MaxOther == 1         \* handle_message calls of the other session
MaxOps == 3           \* rows inserted by the threads of SpecThreads
MaxCallsR == 21       \* handle_message calls of a session under SpecReset
MaxEarly == 2         \* rows up to which SpecLocal mixes all the calls
MaxLocal == 23        \* rows inserted into short_term_memories under SpecLocal
MaxEvents == 2        \* events handled, and events with the provider, under SpecShutdown
MaxWindow == 11       \* rows inserted into short_term_memories under SpecInject
MaxSummaries == 2     \* rows inserted into long_term_memories under SpecSummarize
MaxTurns == 3         \* rows inserted into short_term_memories under SpecSummarize and SpecRecall
MaxResp == 3          \* rows inserted into short_term_memories under SpecResponse
MaxSweeps == 2         \* sweeps that decay one record under SpecDecay
MaxAges == 2           \* decay periods that pass under SpecDecay
MaxAccess == 1        \* searches that reach one record under SpecLtm
MaxMem == 3           \* rows inserted into memories under SpecLtm
MaxLogR == 51         \* rows inserted under SpecReload

max_messages == 50         \* short_term_memory.py:65
default_limit == 50        \* short_term_memory.py:71
summary_threshold == 20    \* config_manager.py:44
decay_days == 30           \* config_manager.py:59
response_min_length == 100 \* memory_processor.py:66
retrieval_top_k == 5       \* config_manager.py:64
recent_messages == 10      \* retriever.py:73
shown_chars == 200         \* retriever.py:75
query_chars == 500         \* retriever.py:63

Sessions == {"A", "B"}
Contents == {"x", "y"}
\* the (role, content) pairs of the messages that are appended
Messages == {<<"user", "x">>, <<"assistant", "y">>}
Threads == {1, 2}
NoThread == 0

VARIABLES
    stm_db,           \* table short_term_memories, rows in rowid order
    stm_seq,          \* sqlite_sequence of the table (AUTOINCREMENT high-water mark)
    session_cache,    \* ShortTermMemoryManager._session_cache: session -> list of dicts
    now,              \* wall clock, seconds
    lock,             \* ShortTermMemoryManager._lock: the thread that holds it
    thr,              \* per thread: the call it is in and where
    message_counter,  \* MemoryProcessor._message_counter
    inflight,         \* per session: handle_message calls suspended in the summarizer
    ltm_db,           \* table memories
    ltm_seq,          \* sqlite_sequence of memories
    vector_store,     \* SimpleVectorStore.store, in insertion order
    initialized,      \* LongTermMemoryEngine._initialized
    result,           \* what the last call returned
    appends,          \* per session: add_message calls completed
    calls,            \* per session: handle_message calls that carried a message
    fired,            \* per session: summarizations handle_message started
    background_tasks, \* HybridMemoryPlugin._background_tasks
    awaiting,         \* per session: events whose request is with the provider
    terminating,      \* where HybridMemoryPlugin.terminate is
    closed            \* the database connections that have been closed

stm_vars == <<stm_db, stm_seq, session_cache, appends>>
thr_vars == <<lock, thr>>
life_vars == <<background_tasks, awaiting, terminating, closed>>
proc_vars == <<message_counter, inflight, calls, fired, life_vars>>
ltm_vars == <<ltm_db, ltm_seq, vector_store, initialized>>
vars == <<stm_db, stm_seq, session_cache, now, lock, thr, message_counter,
          inflight, ltm_db, ltm_seq, vector_store, initialized, result,
          appends, calls, fired, background_tasks, awaiting, terminating,
          closed>>

(***************************************************************************)
(* Sequences and Python slices.                                            *)
(***************************************************************************)
Min(a, b) == IF a < b THEN a ELSE b
Max(a, b) == IF a > b THEN a ELSE b

Reverse(q) == [i \in 1..Len(q) |-> q[Len(q) + 1 - i]]

\* l[-n:] of Python: the last n elements; all of them when n = 0 (l[-0:] is
\* l[0:]) or n > len(l); l[k:] when n = -k < 0.
NegSlice(l, n) ==
    LET len == Len(l)
        start == IF n = 0 THEN 0
                 ELSE IF n > 0 THEN Max(len - n, 0)
                 ELSE Min(-n, len)
    IN  SubSeq(l, start + 1, len)

Ids(q) == [i \in 1..Len(q) |-> q[i].id]
Range(q) == {q[i] : i \in 1..Len(q)}

(***************************************************************************)
(* The short-term table.                                                   *)
(***************************************************************************)
SessionRows(d, s) == SelectSeq(d, LAMBDA r : r.session_id = s)

\* INSERT INTO short_term_memories (session_id, role, content): the id is
\* AUTOINCREMENT (never reused), the timestamp defaults to the current second.
InsertRowDropsOnCollision(d, id, s, role, c, t) ==
    IF \E i \in 1..Len(d) : d[i].session_id = s /\ d[i].timestamp = t
    THEN d
    ELSE Append(d, [id |-> id, session_id |-> s, role |-> role,
                    content |-> c, timestamp |-> t])

InsertRow(d, id, s, role, c, t) ==
    Append(d, [id |-> id, session_id |-> s, role |-> role,
               content |-> c, timestamp |-> t])

\* SELECT ... WHERE session_id = ? ORDER BY timestamp DESC LIMIT n, over the
\* set S of the session's rows: every order of the rows that is descending in
\* timestamp is a result SQL allows (rows of one second tie, and SQL leaves
\* their order open); a negative LIMIT is no limit.
RECURSIVE OrderByTimestampDesc(_, _)
OrderByTimestampDesc(S, n) ==
    IF S = {} \/ n = 0 THEN {<< >>}
    ELSE LET top == {r \in S : \A o \in S : o.timestamp <= r.timestamp}
         IN  UNION {{<<r>> \o p : p \in OrderByTimestampDesc(S \ {r}, n - 1)}
                    : r \in top}

SelectTail(d, s, limit) ==
    OrderByTimestampDesc(Range(SessionRows(d, s)),
                         IF limit < 0 THEN Len(d) ELSE limit)

\* the dict add_message puts in the cache, and the dict built from a row
CacheEntry(id, role, c, t) ==
    [id |-> id, role |-> role, content |-> c, timestamp |-> t]
RowEntry(r) == CacheEntry(r.id, r.role, r.content, r.timestamp)

\* self._session_cache[session_id][-max_messages:]
TrimKeepsOldest(l) == SubSeq(l, 1, Min(Len(l), max_messages))

Trim(l) == IF Len(l) > max_messages THEN NegSlice(l, max_messages) ELSE l

Put(f, k, v) == [x \in DOMAIN f \cup {k} |-> IF x = k THEN v ELSE f[x]]
\* del self._session_cache[session_id]
DropKeepsEntry(f, k) == f

Drop(f, k) == [x \in DOMAIN f \ {k} |-> f[x]]

NoResult == [op |-> "none"]

(***************************************************************************)
(* ShortTermMemoryManager: the bodies of the methods, over the table and   *)
(* the cache.  Each sets `result` to what the method returns.              *)
(***************************************************************************)
AddMessageEffect(s, role, c) ==
    LET id == stm_seq + 1
        old == IF s \in DOMAIN session_cache THEN session_cache[s] ELSE << >>
    IN  /\ stm_db' = InsertRow(stm_db, id, s, role, c, now)
        /\ stm_seq' = id
        /\ session_cache' =
               Put(session_cache, s, Trim(Append(old, CacheEntry(id, role, c, now))))
        /\ appends' = [appends EXCEPT ![s] = @ + 1]

AddMessageBody(s, role, c) ==
    /\ AddMessageEffect(s, role, c)
    /\ result' = [op |-> "add_message", session |-> s, value |-> stm_seq + 1]

\* what get_session_messages returns from a resident session
CachedWindow(s, limit) == NegSlice(session_cache[s], limit)

\* the rows the lazy load asks the table for
LoadLimit(limit) == limit

\* get_session_context: role and content of each message
Project(q) == [i \in 1..Len(q) |-> [role |-> q[i].role, content |-> q[i].content]]

\* what the call returns: the messages, or for get_session_context their
\* projection; `ids` keeps the ids of the messages behind the returned value
Returned(op, s, limit, messages) ==
    [op |-> op, session |-> s, limit |-> limit,
     value |-> IF op = "get_session_context" THEN Project(messages) ELSE messages,
     ids |-> Ids(messages)]

GetSessionMessagesBody(s, limit, op) ==
    IF s \in DOMAIN session_cache
    THEN /\ result' = Returned(op, s, limit, CachedWindow(s, limit))
         /\ UNCHANGED stm_vars
    ELSE \E rows \in SelectTail(stm_db, s, LoadLimit(limit)) :
            LET messages == Reverse([i \in 1..Len(rows) |-> RowEntry(rows[i])])
            IN  /\ session_cache' = Put(session_cache, s, messages)
                /\ result' = Returned(op, s, limit, messages)
                /\ UNCHANGED <<stm_db, stm_seq, appends>>

\* DELETE FROM short_term_memories WHERE id = ?
DeleteRow(d, id) == SelectSeq(d, LAMBDA r : r.id # id)

DeleteMemoryBody(id) ==
    /\ stm_db' = DeleteRow(stm_db, id)
    /\ session_cache' = [s \in DOMAIN session_cache |->
           SelectSeq(session_cache[s], LAMBDA m : m.id # id)]
    /\ UNCHANGED <<stm_seq, appends>>
    /\ result' = [op |-> "delete_memory", id |-> id,
                  value |-> (\E i \in 1..Len(stm_db) : stm_db[i].id = id)]

\* clear_session returns nothing; `rowcount` keeps the rows the DELETE removed
ClearSessionBodyEverySession(s) ==
    /\ stm_db' = << >>
    /\ session_cache' = << >>
    /\ UNCHANGED <<stm_seq, appends>>
    /\ result' = [op |-> "clear_session", session |-> s,
                  rowcount |-> Len(stm_db)]

ClearSessionBody(s) ==
    /\ stm_db' = SelectSeq(stm_db, LAMBDA r : r.session_id # s)
    /\ session_cache' = Drop(session_cache, s)
    /\ UNCHANGED <<stm_seq, appends>>
    /\ result' = [op |-> "clear_session", session |-> s,
                  rowcount |-> Len(SessionRows(stm_db, s))]

\* get_stats: COUNT(DISTINCT session_id) and COUNT(*) of the table
GetStats(d) ==
    [session_count |-> Cardinality({r.session_id : r \in Range(d)}),
     message_count |-> Len(d)]

\* UPDATE short_term_memories SET content = ? WHERE id = ?
UpdateRowNotCommitted(d, id, c) == d

UpdateRow(d, id, c) ==
    [i \in 1..Len(d) |-> IF d[i].id = id THEN [d[i] EXCEPT !.content = c] ELSE d[i]]

\* the value update_memory returns
UpdateReturnsCacheHitOnly(id) ==
    \E s \in DOMAIN session_cache :
        \E i \in 1..Len(session_cache[s]) : session_cache[s][i].id = id

UpdateReturn(id) ==
    \/ \E s \in DOMAIN session_cache :
           \E i \in 1..Len(session_cache[s]) : session_cache[s][i].id = id
    \/ \E i \in 1..Len(stm_db) : stm_db[i].id = id

UpdateMemoryBody(id, c) ==
    /\ stm_db' = UpdateRow(stm_db, id, c)
    /\ session_cache' = [s \in DOMAIN session_cache |->
           [i \in 1..Len(session_cache[s]) |->
               IF session_cache[s][i].id = id
               THEN [session_cache[s][i] EXCEPT !.content = c]
               ELSE session_cache[s][i]]]
    /\ UNCHANGED <<stm_seq, appends>>
    /\ result' = [op |-> "update_memory", id |-> id, value |-> UpdateReturn(id)]


(***************************************************************************)
(* The state after construction: empty tables, nothing cached, the         *)
(* long-term engine not yet initialized.                                   *)
(***************************************************************************)
Idle == [pc |-> "idle"]

Init ==
    /\ stm_db = << >>
    /\ stm_seq = 0
    /\ session_cache = << >>
    /\ now = 0
    /\ lock = NoThread
    /\ thr = [t \in Threads |-> Idle]
    /\ message_counter = << >>
    /\ inflight = [s \in Sessions |-> 0]
    /\ ltm_db = << >>
    /\ ltm_seq = 0
    /\ vector_store = << >>
    /\ initialized = FALSE
    /\ result = NoResult
    /\ appends = [s \in Sessions |-> 0]
    /\ calls = [s \in Sessions |-> 0]
    /\ fired = [s \in Sessions |-> 0]
    /\ background_tasks = {"_initialize"}
    /\ awaiting = [s \in Sessions |-> 0]
    /\ terminating = "no"
    /\ closed = {}

\* a second passes
Tick ==
    /\ now < MaxTime
    /\ result = NoResult
    /\ now' = now + 1
    /\ UNCHANGED <<stm_vars, thr_vars, proc_vars, ltm_vars, result>>

\* The process ends and the plugin is constructed again on the same data
\* directory: the tables stay, everything held in memory starts afresh.
Restart ==
    /\ lock = NoThread
    /\ result = NoResult
    /\ \A s \in Sessions : inflight[s] = 0
    /\ session_cache' = << >>
    /\ message_counter' = << >>
    /\ vector_store' = << >>
    /\ initialized' = FALSE
    /\ calls' = [s \in Sessions |-> 0]
    /\ fired' = [s \in Sessions |-> 0]
    /\ background_tasks' = {"_initialize"}
    /\ awaiting' = [s \in Sessions |-> 0]
    /\ terminating' = "no"
    /\ closed' = {}
    /\ UNCHANGED <<stm_db, stm_seq, appends, now, thr_vars, inflight, ltm_db,
                   ltm_seq, result>>

(***************************************************************************)
(* Calls of the short-term manager made one after the other (from the      *)
(* event loop): the lock is free when the call starts and when it ends.    *)
(***************************************************************************)
Rest == <<now, thr_vars, proc_vars, ltm_vars>>

\* a call starts when the lock is free and the caller has taken the value the
\* previous call returned
Callable == lock = NoThread /\ result = NoResult

\* the caller takes the returned value
Return ==
    /\ result # NoResult
    /\ result' = NoResult
    /\ UNCHANGED <<stm_vars, now, thr_vars, proc_vars, ltm_vars>>

add_message(s, role, c) ==
    /\ Callable
    /\ AddMessageBody(s, role, c)
    /\ UNCHANGED Rest

get_session_messages(s, limit) ==
    /\ Callable
    /\ GetSessionMessagesBody(s, limit, "get_session_messages")
    /\ UNCHANGED Rest

\* get_session_messages with the default limit, projected on role and content
get_session_context(s) ==
    /\ Callable
    /\ GetSessionMessagesBody(s, default_limit, "get_session_context")
    /\ UNCHANGED Rest

delete_memory(id) ==
    /\ Callable
    /\ DeleteMemoryBody(id)
    /\ UNCHANGED Rest

clear_session(s) ==
    /\ Callable
    /\ ClearSessionBody(s)
    /\ UNCHANGED Rest

update_memory(id, c) ==
    /\ Callable
    /\ UpdateMemoryBody(id, c)
    /\ UNCHANGED Rest

Limits == {0, 1, 2}
IdArgs == 1..(MaxId + 1)

Next ==
    \/ \E s \in Sessions, m \in Messages :
           stm_seq < MaxId /\ add_message(s, m[1], m[2])
    \/ \E s \in Sessions, limit \in Limits : get_session_messages(s, limit)
    \/ \E s \in Sessions : get_session_context(s)
    \/ \E id \in IdArgs : delete_memory(id)
    \/ \E s \in Sessions : clear_session(s)
    \/ \E id \in IdArgs : update_memory(id, "z")
    \/ Return
    \/ Tick
    \/ Restart

Spec == Init /\ [][Next]_vars

(***************************************************************************)
(* LongTermMemoryEngine: initialize and add_memory.  importance is in      *)
(* tenths (5 is 0.5); decay_score is the fraction num/den.                 *)
(***************************************************************************)
\* initialize: the tables are created when missing, the vector store is a new
\* empty SimpleVectorStore; when opening the database fails the engine stays
\* not initialized
initialize(ok) ==
    /\ Callable
    /\ ~initialized
    /\ IF ok
       THEN /\ initialized' = TRUE
            /\ vector_store' = << >>
       ELSE UNCHANGED <<initialized, vector_store>>
    /\ UNCHANGED <<stm_vars, now, thr_vars, proc_vars, ltm_db, ltm_seq, result>>

\* a row of memories as INSERT (session_id, content, importance, metadata)
\* leaves it: the other columns take their defaults
MemoryRowDefaultImportance(id, s, content, importance, metadata, t) ==
    [id |-> id, session_id |-> s, content |-> content, importance |-> 5,
     created_at |-> t, last_accessed |-> t, access_count |-> 0,
     decay_score |-> [num |-> 1, den |-> 1], metadata |-> metadata]

MemoryRow(id, s, content, importance, metadata, t) ==
    [id |-> id, session_id |-> s, content |-> content, importance |-> importance,
     created_at |-> t, last_accessed |-> t, access_count |-> 0,
     decay_score |-> [num |-> 1, den |-> 1], metadata |-> metadata]

\* add_memory: -1 and no effect when the engine is not initialized, else the
\* row is inserted and its content indexed
AddMemoryEffect(content, s, importance, metadata) ==
    IF ~initialized
    THEN UNCHANGED ltm_vars
    ELSE /\ ltm_db' = Append(ltm_db,
                 MemoryRow(ltm_seq + 1, s, content, importance, metadata, now))
         /\ ltm_seq' = ltm_seq + 1
         /\ vector_store' = Append(vector_store, [id |-> ltm_seq + 1, content |-> content])
         /\ UNCHANGED initialized

AddMemoryReturn == IF ~initialized THEN -1 ELSE ltm_seq + 1

(***************************************************************************)
(* MemoryProcessor.handle_message and summarize_session.                   *)
(***************************************************************************)
\* self._message_counter.get(session_id, 0)
Counter(s) == IF s \in DOMAIN message_counter THEN message_counter[s] ELSE 0

\* the outcomes of the summarizer call: a summary, an empty answer (no
\* provider, or an empty completion), an exception
Outcomes == {"ok", "empty", "raises"}

\* what _call_llm_summary returns: the exception is caught and logged
SummaryOf(outcome) == IF outcome = "ok" THEN "summary" ELSE ""

\* the comparison of the counter with the threshold
TriggersAbove(n) == n > summary_threshold

Triggers(n) == n >= summary_threshold

\* summarize_session after the summarizer has answered: a non-empty summary
\* is stored with importance 0.7
SummaryStoredAlways(s, summary) ==
    AddMemoryEffect(summary, s, 7, "{\"type\": \"summary\"}")

SummaryStored(s, summary) ==
    IF summary # ""
    THEN AddMemoryEffect(summary, s, 7, "{\"type\": \"summary\"}")
    ELSE UNCHANGED ltm_vars

\* the counter after the awaited summarize_session has returned
CounterKeptOnFailure(counter, s, summary) ==
    IF summary = "" THEN counter ELSE Put(counter, s, 0)

CounterAfterSummary(counter, s, summary) == Put(counter, s, 0)

HandleMessageReturn(s, summarized, outcome) ==
    [op |-> "handle_message", session |-> s, summarized |-> summarized,
     outcome |-> outcome,
     summary |-> IF summarized THEN SummaryOf(outcome) ELSE ""]

\* handle_message for an event without a session id or without a message
handle_message_ignored ==
    /\ Callable
    /\ result' = [op |-> "handle_message", session |-> "", summarized |-> FALSE,
                  outcome |-> "none", summary |-> ""]
    /\ UNCHANGED <<stm_vars, now, thr_vars, proc_vars, ltm_vars>>

\* handle_message up to the end of the call when the threshold is not
\* reached, and up to the await of the summarizer when it is: the message is
\* appended, the counter incremented, and summarize_session reads the
\* context (the session is resident, its window not empty) and calls the
\* summarizer
handle_message_begin(s, c) ==
    /\ Callable
    /\ AddMessageEffect(s, "user", c)
    /\ message_counter' = Put(message_counter, s, Counter(s) + 1)
    /\ calls' = [calls EXCEPT ![s] = @ + 1]
    /\ IF Triggers(Counter(s) + 1)
       THEN /\ fired' = [fired EXCEPT ![s] = @ + 1]
            /\ inflight' = [inflight EXCEPT ![s] = @ + 1]
            /\ UNCHANGED result
       ELSE /\ result' = HandleMessageReturn(s, FALSE, "none")
            /\ UNCHANGED <<fired, inflight>>
    /\ UNCHANGED <<now, thr_vars, ltm_vars, life_vars>>

\* the summarizer answers a suspended handle_message: the summary is stored,
\* the counter reset, the call returns
handle_message_resume(s, outcome) ==
    /\ Callable
    /\ inflight[s] > 0
    /\ inflight' = [inflight EXCEPT ![s] = @ - 1]
    /\ SummaryStored(s, SummaryOf(outcome))
    /\ message_counter' = CounterAfterSummary(message_counter, s, SummaryOf(outcome))
    /\ result' = HandleMessageReturn(s, TRUE, outcome)
    /\ UNCHANGED <<stm_vars, now, thr_vars, calls, fired, life_vars>>

\* handle_message as the source runs it: _call_llm_summary returns without
\* suspending, so the call runs from its first line to its last in one step
handle_message(s, c, outcome) ==
    /\ Callable
    /\ AddMessageEffect(s, "user", c)
    /\ calls' = [calls EXCEPT ![s] = @ + 1]
    /\ IF Triggers(Counter(s) + 1)
       THEN /\ fired' = [fired EXCEPT ![s] = @ + 1]
            /\ SummaryStored(s, SummaryOf(outcome))
            /\ message_counter' =
                   CounterAfterSummary(Put(message_counter, s, Counter(s) + 1),
                                       s, SummaryOf(outcome))
            /\ result' = HandleMessageReturn(s, TRUE, outcome)
       ELSE /\ message_counter' = Put(message_counter, s, Counter(s) + 1)
            /\ result' = HandleMessageReturn(s, FALSE, "none")
            /\ UNCHANGED <<fired, ltm_vars>>
    /\ UNCHANGED <<now, thr_vars, inflight, life_vars>>

(***************************************************************************)
(* Properties of the short-term manager, checked under Spec.               *)
(***************************************************************************)
\* the last min(limit, n) rows of session s in the table, oldest first
LogTail(s, limit) ==
    LET rows == SessionRows(stm_db, s)
    IN  SubSeq(rows, Len(rows) - Min(limit, Len(rows)) + 1, Len(rows))

IdRoleContent(q) ==
    [i \in 1..Len(q) |-> [id |-> q[i].id, role |-> q[i].role, content |-> q[i].content]]

\* C2: get_session_messages(S, limit) with 0 <= limit <= max_messages returns
\* exactly the last min(limit, n) messages of S's rows in the table, oldest
\* first, whether S is resident or not.
C2_WindowIsLogTail ==
    (result.op = "get_session_messages" /\ result.limit \in 0..max_messages)
        => IdRoleContent(result.value) = IdRoleContent(LogTail(result.session, result.limit))

\* C3: get_session_context returns the messages of a session in the order in
\* which they were submitted (the order of their ids), from memory and after
\* a lazy reload from the table.
C3_ContextInSubmissionOrder ==
    result.op = "get_session_context"
        => \A i, j \in 1..Len(result.ids) : i < j => result.ids[i] < result.ids[j]

\* C9: every message held in an in-memory window is a row of the table with
\* the same id, role and content, and of the session of that window.
C9_CacheConsistentWithLog ==
    \A s \in DOMAIN session_cache :
        \A i \in 1..Len(session_cache[s]) :
            \E k \in 1..Len(stm_db) :
                /\ stm_db[k].id = session_cache[s][i].id
                /\ stm_db[k].role = session_cache[s][i].role
                /\ stm_db[k].content = session_cache[s][i].content
                /\ stm_db[k].session_id = s

\* a window holds a message rewritten by update_memory while another row of
\* the table has been deleted and both sessions are resident
C9_Witness ==
    /\ DOMAIN session_cache = Sessions
    /\ Len(stm_db) < stm_seq
    /\ \E s \in Sessions : \E i \in 1..Len(session_cache[s]) :
           session_cache[s][i].content = "z"

InLog(id) == \E k \in 1..Len(stm_db) : stm_db[k].id = id
InCache(id) ==
    \E s \in DOMAIN session_cache :
        \E i \in 1..Len(session_cache[s]) : session_cache[s][i].id = id

\* C10: update_memory and delete_memory return success exactly when a row
\* with that id is in the table when the call starts, resident or not; a
\* call that returns failure leaves the table and every window as they were.
C10_SuccessIffInLog ==
    [][(result = NoResult /\ result'.op \in {"update_memory", "delete_memory"})
          => /\ result'.value = InLog(result'.id)
             /\ ~result'.value => (stm_db' = stm_db /\ session_cache' = session_cache)
      ]_vars

\* update_memory has succeeded on a row that no window holds
C10_Witness ==
    /\ result.op = "update_memory"
    /\ result.value
    /\ ~InCache(result.id)
    /\ \E k \in 1..Len(stm_db) : stm_db[k].id = result.id /\ stm_db[k].content = "z"

(***************************************************************************)
(* SpecWindow: one manager, from its construction on an empty table, fed   *)
(* more than max_messages messages of a conversation (user and assistant   *)
(* in turn) and asked for windows in between.                              *)
(***************************************************************************)
MessageAt(id) == IF id % 2 = 1 THEN <<"user", "x">> ELSE <<"assistant", "y">>

WindowLimits == {1, max_messages}

NextWindow ==
    \/ /\ stm_seq < MaxLogW
       /\ add_message("A", MessageAt(stm_seq + 1)[1], MessageAt(stm_seq + 1)[2])
    \/ \E s \in Sessions, limit \in WindowLimits : get_session_messages(s, limit)
    \/ Return

SpecWindow == Init /\ [][NextWindow]_vars

\* C1: once a session has received more than max_messages add_message calls,
\* get_session_messages(session, max_messages) returns exactly the last
\* max_messages of them, oldest first, and the table holds all of them.
C1_BoundedWindow ==
    \A s \in Sessions :
        appends[s] > max_messages =>
            /\ Len(SessionRows(stm_db, s)) = appends[s]
            /\ (result.op = "get_session_messages" /\ result.session = s
                    /\ result.limit = max_messages)
                 => /\ Len(result.value) = max_messages
                    /\ IdRoleContent(result.value) = IdRoleContent(LogTail(s, max_messages))

\* the window has been asked for after the 52nd message
C1_Witness ==
    /\ appends["A"] = max_messages + 2
    /\ result.op = "get_session_messages"
    /\ result.session = "A"
    /\ result.limit = max_messages
    /\ result.value[1].id = 3

(***************************************************************************)
(* SpecCoord: the coordinator as the source runs it, each handle_message   *)
(* call running to its end before the next one starts.  Session A is       *)
(* followed over two thresholds.                                           *)
(***************************************************************************)
NextCoord ==
    \/ \E ok \in BOOLEAN : initialize(ok)
    \/ \E o \in Outcomes : calls["A"] < MaxCalls /\ handle_message("A", "x", o)
    \/ \E o \in Outcomes : calls["B"] < MaxOther /\ handle_message("B", "y", o)
    \/ handle_message_ignored
    \/ Return

SpecCoord == Init /\ [][NextCoord]_vars

\* C4: after exactly summary_threshold (20) handle_message calls of a session
\* summarization has fired once and the counter of the session is 0; calls 21
\* to 39 do not fire it; call 40 fires it a second time.
C4_ThresholdTrigger ==
    \A s \in Sessions :
        /\ calls[s] < summary_threshold => fired[s] = 0
        /\ calls[s] = summary_threshold => (fired[s] = 1 /\ Counter(s) = 0)
        /\ (calls[s] > summary_threshold /\ calls[s] < 2 * summary_threshold)
              => fired[s] = 1
        /\ calls[s] = 2 * summary_threshold => (fired[s] = 2 /\ Counter(s) = 0)

\* the 40th call of session A has just returned from its summarization
C4_Witness ==
    /\ calls["A"] = 2 * summary_threshold
    /\ fired["A"] = 2
    /\ result.op = "handle_message"
    /\ result.session = "A"
    /\ result.summarized

(***************************************************************************)
(* SpecSuspend: the coordinator with the summarizer call as a suspension   *)
(* point: other handle_message calls run while a summarization waits for   *)
(* its answer.                                                             *)
(***************************************************************************)
NextSuspend ==
    \/ \E ok \in BOOLEAN : initialize(ok)
    \/ /\ calls["A"] < MaxCallsS
       /\ inflight["A"] < MaxInflight
       /\ handle_message_begin("A", "x")
    \/ /\ calls["B"] < MaxOther
       /\ handle_message_begin("B", "y")
    \/ \E s \in Sessions, o \in Outcomes : handle_message_resume(s, o)
    \/ handle_message_ignored
    \/ Return

SpecSuspend == Init /\ [][NextSuspend]_vars

\* C5: the summarizations fired for a session never exceed
\* floor(handle_message calls received / summary_threshold), also when calls
\* of the session run while a summarization is suspended in the summarizer.
C5_AtMostOnePerThreshold ==
    \A s \in Sessions : fired[s] <= calls[s] \div summary_threshold

\* C6: when the summarizer fails or answers with an empty summary, the
\* handle_message call that reached the threshold returns, no long-term
\* record has been added, the summarization yields the empty string and the
\* counter of the session is 0.
C6_FailedSummaryResetsCounter ==
    [][(result = NoResult /\ result'.op = "handle_message" /\ result'.summarized
            /\ result'.outcome \in {"empty", "raises"})
          => /\ ltm_db' = ltm_db
             /\ vector_store' = vector_store
             /\ result'.summary = ""
             /\ result'.session \in DOMAIN message_counter'
             /\ message_counter'[result'.session] = 0
      ]_vars

\* the summarizer has raised under an initialized long-term engine, while
\* another message of the session had arrived in the meantime
C6_Witness ==
    /\ result.op = "handle_message"
    /\ result.summarized
    /\ result.outcome = "raises"
    /\ initialized
    /\ calls[result.session] = summary_threshold + 1
    /\ Counter(result.session) = 0

(***************************************************************************)
(* SpecThreads: add_message and get_stats called from several threads.     *)
(* Each method body runs inside `with self._lock`, the one RLock of the     *)
(* manager: a thread reaches the with statement, acquires the lock when it  *)
(* is free, runs the body, releases the lock and returns.                   *)
(***************************************************************************)
\* rows inserted and inserts on their way
Issued ==
    stm_seq + Cardinality({t \in Threads :
                  thr[t].pc \in {"acquire", "locked"} /\ thr[t].op = "add_message"})

\* thread t calls add_message(s, role, c) and reaches `with self._lock`;
\* `at` keeps the number of rows of the table at that moment
thread_call_add(t, s, role, c) ==
    /\ thr[t].pc = "idle"
    /\ Issued < MaxOps
    /\ thr' = [thr EXCEPT ![t] = [pc |-> "acquire", op |-> "add_message",
                  session |-> s, role |-> role, content |-> c, at |-> Len(stm_db)]]
    /\ UNCHANGED <<stm_vars, now, lock, proc_vars, ltm_vars, result>>

thread_call_stats(t) ==
    /\ thr[t].pc = "idle"
    /\ thr' = [thr EXCEPT ![t] = [pc |-> "acquire", op |-> "get_stats",
                  session |-> "", role |-> "", content |-> "", at |-> Len(stm_db)]]
    /\ UNCHANGED <<stm_vars, now, lock, proc_vars, ltm_vars, result>>

\* the lock a call on session s has to take
LockFree(s) == lock = NoThread

thread_acquire(t) ==
    /\ thr[t].pc = "acquire"
    /\ LockFree(thr[t].session)
    /\ lock' = t
    /\ thr' = [thr EXCEPT ![t].pc = "locked"]
    /\ UNCHANGED <<stm_vars, now, proc_vars, ltm_vars, result>>

\* the body of the method, the release of the lock and the return value
thread_run(t) ==
    /\ thr[t].pc = "locked"
    /\ lock = t
    /\ lock' = NoThread
    /\ IF thr[t].op = "add_message"
       THEN /\ AddMessageEffect(thr[t].session, thr[t].role, thr[t].content)
            /\ thr' = [thr EXCEPT ![t] = [@ EXCEPT !.pc = "done"] @@ [ret |-> stm_seq + 1]]
       ELSE /\ thr' = [thr EXCEPT ![t] = [@ EXCEPT !.pc = "done"] @@ [ret |-> GetStats(stm_db)]]
            /\ UNCHANGED stm_vars
    /\ UNCHANGED <<now, proc_vars, ltm_vars, result>>

thread_return(t) ==
    /\ thr[t].pc = "done"
    /\ thr' = [thr EXCEPT ![t] = Idle]
    /\ UNCHANGED <<stm_vars, now, lock, proc_vars, ltm_vars, result>>

NextThreads ==
    \/ \E t \in Threads, s \in Sessions, m \in Messages : thread_call_add(t, s, m[1], m[2])
    \/ \E t \in Threads : thread_call_stats(t)
    \/ \E t \in Threads : thread_acquire(t)
    \/ \E t \in Threads : thread_run(t)
    \/ \E t \in Threads : thread_return(t)
    \/ Tick

SpecThreads == Init /\ [][NextThreads]_vars

DoneAdd(t) == thr[t].pc = "done" /\ thr[t].op = "add_message"

\* C7: concurrent add_message calls all become durable: the ids of the table
\* are pairwise distinct, every call that has returned left a row with the
\* id it returned and its session, role and content, two calls return
\* different ids, and message_count of get_stats (the rows of the table) has
\* grown by one for each completed call.
C7_ConcurrentAppendsDurable ==
    /\ \A i, j \in 1..Len(stm_db) : i # j => stm_db[i].id # stm_db[j].id
    /\ \A t \in Threads : DoneAdd(t) =>
           \E k \in 1..Len(stm_db) :
               /\ stm_db[k].id = thr[t].ret
               /\ stm_db[k].session_id = thr[t].session
               /\ stm_db[k].role = thr[t].role
               /\ stm_db[k].content = thr[t].content
    /\ \A t, u \in Threads : (t # u /\ DoneAdd(t) /\ DoneAdd(u)) => thr[t].ret # thr[u].ret
    /\ Len(stm_db) = appends["A"] + appends["B"]
    /\ \A t \in Threads : (thr[t].pc = "done" /\ thr[t].op = "get_stats") =>
           /\ thr[t].ret.message_count >= thr[t].at
           /\ thr[t].ret.message_count <= Len(stm_db)

\* two calls for the same session, issued when the table held the same rows
\* and within the same second, have both returned
C7_Witness ==
    /\ DoneAdd(1)
    /\ DoneAdd(2)
    /\ thr[1].session = thr[2].session
    /\ thr[1].at = thr[2].at
    /\ Len(stm_db) = thr[1].at + 2
    /\ stm_db[Len(stm_db)].timestamp = stm_db[Len(stm_db) - 1].timestamp

\* C8: a thread that holds the lock for a call on one session never makes a
\* call on another session wait.
C8_NoCrossSessionWait ==
    \A t \in Threads :
        (thr[t].pc = "acquire" /\ thr[t].op = "add_message"
            /\ lock # NoThread /\ thr[lock].op = "add_message")
          => thr[lock].session = thr[t].session

(***************************************************************************)
(* SpecReload: a conversation of more than max_messages messages, one per  *)
(* second, with the process ended and started again on the same data       *)
(* directory, and windows asked for with limits around max_messages.       *)
(***************************************************************************)
\* a second passes once the current one has its message
Elapse ==
    /\ now < MaxLogR
    /\ result = NoResult
    /\ \E i \in 1..Len(stm_db) : stm_db[i].timestamp = now
    /\ now' = now + 1
    /\ UNCHANGED <<stm_vars, thr_vars, proc_vars, ltm_vars, result>>

ReloadLimits == {max_messages, max_messages + 1}

NextReload ==
    \/ /\ stm_seq < MaxLogR
       /\ \A i \in 1..Len(stm_db) : stm_db[i].timestamp # now
       /\ add_message("A", MessageAt(stm_seq + 1)[1], MessageAt(stm_seq + 1)[2])
    \/ Elapse
    \/ \E limit \in ReloadLimits : get_session_messages("A", limit)
    \/ Return
    \/ Restart

SpecReload == Init /\ [][NextReload]_vars

\* C11: in every reachable state the window of every session holds at most
\* max_messages messages, whatever add_message and get_session_messages
\* calls (with any limit) produced it, and what is dropped from a window is
\* its oldest part: a window is a run of consecutive rows of the table.
C11_WindowAtMostMaxMessages ==
    \A s \in DOMAIN session_cache :
        /\ Len(session_cache[s]) <= max_messages
        /\ \E k \in 0..(Len(SessionRows(stm_db, s)) - Len(session_cache[s])) :
               Ids(session_cache[s]) =
                   Ids(SubSeq(SessionRows(stm_db, s), k + 1, k + Len(session_cache[s])))

(***************************************************************************)
(* SpecWrite: add_message statement by statement.  Under the lock the      *)
(* INSERT and the commit run first (lines 44-51) and may raise; the cache  *)
(* is updated after them (lines 53-67).  An exception leaves the with      *)
(* block, which releases the lock, and reaches the caller.                 *)
(***************************************************************************)
\* the outcomes of execute and commit: both succeed; execute raises and no
\* row is written; commit raises and the row stays in the open transaction
\* of the connection, which the next commit makes durable
InsertOutcomes == {"ok", "execute_raises", "commit_raises"}

\* the cache after lines 53-67
WindowAfterAppend(cache, s, entry) ==
    Put(cache, s, Trim(Append(IF s \in DOMAIN cache THEN cache[s] ELSE << >>, entry)))

\* the cache while lines 44-51 run
WindowWrittenFirst(cache, s, entry) == WindowAfterAppend(cache, s, entry)

WindowDuringWrite(cache, s, entry) == cache

add_message_insert(t, outcome) ==
    /\ thr[t].pc = "locked"
    /\ thr[t].op = "add_message"
    /\ lock = t
    /\ session_cache' = WindowDuringWrite(session_cache, thr[t].session,
                            CacheEntry(stm_seq + 1, thr[t].role, thr[t].content, now))
    /\ IF outcome = "execute_raises"
       THEN UNCHANGED <<stm_db, stm_seq>>
       ELSE /\ stm_db' = InsertRow(stm_db, stm_seq + 1, thr[t].session,
                                   thr[t].role, thr[t].content, now)
            /\ stm_seq' = stm_seq + 1
    /\ IF outcome = "ok"
       THEN /\ thr' = [thr EXCEPT ![t] = [@ EXCEPT !.pc = "inserted"] @@ [ret |-> stm_seq + 1]]
            /\ UNCHANGED lock
       ELSE /\ thr' = [thr EXCEPT ![t].pc = "raised"]
            /\ lock' = NoThread
    /\ UNCHANGED <<appends, now, proc_vars, ltm_vars, result>>

add_message_cache(t) ==
    /\ thr[t].pc = "inserted"
    /\ lock = t
    /\ session_cache' = WindowAfterAppend(session_cache, thr[t].session,
                            CacheEntry(thr[t].ret, thr[t].role, thr[t].content, now))
    /\ appends' = [appends EXCEPT ![thr[t].session] = @ + 1]
    /\ thr' = [thr EXCEPT ![t].pc = "done"]
    /\ lock' = NoThread
    /\ UNCHANGED <<stm_db, stm_seq, now, proc_vars, ltm_vars, result>>

\* the caller gets the exception
thread_raise(t) ==
    /\ thr[t].pc = "raised"
    /\ thr' = [thr EXCEPT ![t] = Idle]
    /\ UNCHANGED <<stm_vars, now, lock, proc_vars, ltm_vars, result>>

NextWrite ==
    \/ \E t \in Threads, s \in Sessions, m \in Messages : thread_call_add(t, s, m[1], m[2])
    \/ \E t \in Threads : thread_acquire(t)
    \/ \E t \in Threads, outcome \in InsertOutcomes : add_message_insert(t, outcome)
    \/ \E t \in Threads : add_message_cache(t)
    \/ \E t \in Threads : thread_return(t)
    \/ \E t \in Threads : thread_raise(t)

SpecWrite == Init /\ [][NextWrite]_vars

\* C12: add_message writes the row before it touches the window: in every
\* state every message of a window is a row of the table, the step that
\* writes the row leaves every window as it was, and when the write raises
\* the windows are as they were before the call.
C12_LogBeforeWindow ==
    /\ [](\A s \in DOMAIN session_cache : \A i \in 1..Len(session_cache[s]) :
            \E k \in 1..Len(stm_db) :
                /\ stm_db[k].id = session_cache[s][i].id
                /\ stm_db[k].session_id = s)
    /\ [][\A t \in Threads :
            (thr[t].pc = "locked" /\ thr'[t].pc \in {"inserted", "raised"})
                => session_cache' = session_cache]_vars
    /\ [][\A t \in Threads :
            (thr[t].pc = "inserted" /\ thr'[t].pc = "done")
                => /\ stm_db' = stm_db
                   /\ \E k \in 1..Len(stm_db) :
                          /\ stm_db[k].id = thr[t].ret
                          /\ stm_db[k].content = thr[t].content]_vars

\* a write has raised in a call for a session whose window holds a message
C12_Witness ==
    \E t \in Threads :
        /\ thr[t].pc = "raised"
        /\ thr[t].session \in DOMAIN session_cache
        /\ Len(session_cache[thr[t].session]) > 0
        /\ Len(stm_db) = Len(session_cache[thr[t].session])

(***************************************************************************)
(* clear_session, checked under Spec.                                      *)
(***************************************************************************)
\* C13: clear_session(S) removes every row of S from the table and drops the
\* window of S: right after it the load that get_session_context(S) runs
\* finds nothing, get_stats counts neither S nor its messages, and the rows
\* and the windows of every other session are as before; a
\* get_session_context for a session without rows and without window
\* returns the empty list.
C13_ClearSessionRemovesOnlyThatSession ==
    /\ [][(result = NoResult /\ result'.op = "clear_session") =>
            LET s == result'.session
            IN  /\ SessionRows(stm_db', s) = << >>
                /\ s \notin DOMAIN session_cache'
                /\ SelectTail(stm_db', s, default_limit) = {<< >>}
                /\ GetStats(stm_db').message_count =
                       GetStats(stm_db).message_count - Len(SessionRows(stm_db, s))
                /\ GetStats(stm_db').session_count =
                       Cardinality({r.session_id : r \in Range(stm_db)} \ {s})
                /\ \A o \in Sessions \ {s} :
                       /\ SessionRows(stm_db', o) = SessionRows(stm_db, o)
                       /\ (o \in DOMAIN session_cache') = (o \in DOMAIN session_cache)
                       /\ o \in DOMAIN session_cache => session_cache'[o] = session_cache[o]
          ]_vars
    /\ [][(result = NoResult /\ result'.op = "get_session_context"
              /\ SessionRows(stm_db, result'.session) = << >>
              /\ result'.session \notin DOMAIN session_cache)
            => result'.value = << >>]_vars

\* clear_session has removed the row of one session while another session
\* has a row and a window
C13_Witness ==
    /\ result.op = "clear_session"
    /\ result.rowcount = 1
    /\ Len(stm_db) = 1
    /\ stm_db[1].session_id # result.session
    /\ stm_db[1].session_id \in DOMAIN session_cache
    /\ Len(session_cache[stm_db[1].session_id]) = 1

(***************************************************************************)
(* Texts of the long-term store.  A text is the sequence of its            *)
(* characters, so that lower() and the `in` of SimpleVectorStore.search    *)
(* are computed as Python computes them.                                   *)
(***************************************************************************)
CatsAreGreat == <<"c","a","t","s"," ","a","r","e"," ","g","r","e","a","t">>
DogsAreLoyal == <<"d","o","g","s"," ","a","r","e"," ","l","o","y","a","l">>
ILikePizza == <<"I"," ","l","i","k","e"," ","p","i","z","z","a">>
EmptyText == << >>
\* the contents that are stored, by the id they get (or no content at all),
\* and the queries that are asked
LtmContentAt(id) ==
    CASE id % 3 = 1 -> CatsAreGreat [] id % 3 = 2 -> DogsAreLoyal [] OTHER -> ILikePizza
LtmContents(id) == {LtmContentAt(id), EmptyText}
Queries == {<<"d","o","g">>, <<"A">>, <<"b","i","r","d">>, EmptyText}
\* the importance given with the record of an id, in tenths
ImportanceAt(id) == IF id % 2 = 1 THEN 1 ELSE 9
TopK == {0, 1, 2}

\* str.lower() on the characters that occur
LowerChar(ch) ==
    CASE ch = "A" -> "a" [] ch = "I" -> "i" [] OTHER -> ch
Lower(text) == [i \in 1..Len(text) |-> LowerChar(text[i])]

\* q in c, for strings
IsSubstring(q, c) ==
    \E i \in 0..(Len(c) - Len(q)) : SubSeq(c, i + 1, i + Len(q)) = q

\* query_lower in content.lower()
Matches(query, content) == IsSubstring(Lower(query), Lower(content))

\* SimpleVectorStore.search(query, k): the ids of the entries that match, in
\* the order of the dict, up to the entry with which the list reaches k
\* entries (the length is tested after the append, so a first match is kept
\* also when k = 0)
VectorSearch(store, query, k) ==
    LET hits == SelectSeq(store, LAMBDA e : Matches(query, e.content))
    IN  Ids(SubSeq(hits, 1, Min(Len(hits), Max(k, 1))))

\* SELECT ... FROM memories ORDER BY created_at DESC LIMIT n: every order of
\* the rows that is descending in created_at (whole seconds, ties left open)
RECURSIVE OrderByCreatedAtDesc(_, _)
OrderByCreatedAtDesc(S, n) ==
    IF S = {} \/ n = 0 THEN {<< >>}
    ELSE LET top == {r \in S : \A o \in S : o.created_at <= r.created_at}
         IN  UNION {{<<r>> \o p : p \in OrderByCreatedAtDesc(S \ {r}, n - 1)}
                    : r \in top}

\* SELECT ... FROM memories WHERE id IN (ids): the rows in any order
RECURSIVE Orders(_)
Orders(S) ==
    IF S = {} THEN {<< >>}
    ELSE UNION {{<<r>> \o p : p \in Orders(S \ {r})} : r \in S}

SelectIdIn(d, ids) == Orders({r \in Range(d) : r.id \in Range(ids)})

\* UPDATE memories SET last_accessed = ?, access_count = access_count + 1
\* WHERE id = ?, for each candidate id
TouchRaisesImportance(d, ids, t) ==
    [i \in 1..Len(d) |->
        IF d[i].id \in Range(ids)
        THEN [d[i] EXCEPT !.last_accessed = t, !.access_count = @ + 1,
                          !.importance = @ + 1]
        ELSE d[i]]

Touch(d, ids, t) ==
    [i \in 1..Len(d) |->
        IF d[i].id \in Range(ids)
        THEN [d[i] EXCEPT !.last_accessed = t, !.access_count = @ + 1]
        ELSE d[i]]

\* rows[:k]
TakeAll(rows, k) == rows

Take(rows, k) == SubSeq(rows, 1, Min(Len(rows), k))

\* the dicts search returns; score is in tenths
FallbackResult(rows) ==
    [i \in 1..Len(rows) |->
        [id |-> rows[i].id, session_id |-> rows[i].session_id,
         content |-> rows[i].content, importance |-> rows[i].importance,
         created_at |-> rows[i].created_at, score |-> rows[i].access_count]]

LexicalResult(rows) ==
    [i \in 1..Len(rows) |->
        [id |-> rows[i].id, session_id |-> rows[i].session_id,
         content |-> rows[i].content, importance |-> rows[i].importance,
         created_at |-> rows[i].created_at, score |-> 10 - (i - 1)]]

(***************************************************************************)
(* LongTermMemoryEngine: add_memory, search, get_memory.                   *)
(***************************************************************************)
add_memory(content, s, importance) ==
    /\ Callable
    /\ AddMemoryEffect(content, s, importance, "{}")
    /\ result' = [op |-> "add_memory", content |-> content, session |-> s,
                  importance |-> importance, value |-> AddMemoryReturn]
    /\ UNCHANGED <<stm_vars, now, thr_vars, proc_vars>>

\* what search returns; `path` keeps the branch that produced it
SearchReturn(query, k, value, path) ==
    [op |-> "search", query |-> query, k |-> k, value |-> value, path |-> path]

search(query, k) ==
    /\ Callable
    /\ IF ~initialized
       THEN /\ result' = SearchReturn(query, k, << >>, "disabled")
            /\ UNCHANGED ltm_vars
       ELSE LET candidate_ids == VectorSearch(vector_store, query, k * 2)
            IN  IF candidate_ids = << >>
                THEN \E rows \in OrderByCreatedAtDesc(Range(ltm_db), k) :
                        /\ result' = SearchReturn(query, k, FallbackResult(rows), "fallback")
                        /\ UNCHANGED ltm_vars
                ELSE \E rows \in SelectIdIn(ltm_db, candidate_ids) :
                        /\ ltm_db' = Touch(ltm_db, candidate_ids, now)
                        /\ result' = SearchReturn(query, k, LexicalResult(Take(rows, k)),
                                                  "lexical")
                        /\ UNCHANGED <<ltm_seq, vector_store, initialized>>
    /\ UNCHANGED <<stm_vars, now, thr_vars, proc_vars>>

None == [none |-> TRUE]

\* SELECT id, session_id, content, importance, created_at, metadata
\* FROM memories WHERE id = ?
GetMemory(d, id) ==
    IF \E i \in 1..Len(d) : d[i].id = id
    THEN LET r == CHOOSE r \in Range(d) : r.id = id
         IN  [id |-> r.id, session_id |-> r.session_id, content |-> r.content,
              importance |-> r.importance, created_at |-> r.created_at,
              metadata |-> r.metadata]
    ELSE None

\* get_memory does not test _initialized: before initialize has opened the
\* database the engine has no db attribute and the call raises
get_memory(id) ==
    /\ Callable
    /\ result' = [op |-> "get_memory", id |-> id, raised |-> ~initialized,
                  value |-> IF initialized THEN GetMemory(ltm_db, id) ELSE None]
    /\ UNCHANGED <<stm_vars, now, thr_vars, proc_vars, ltm_vars>>

\* dict.get(key, default) on the JSON body of a request
Get(data, key, default) == IF key \in DOMAIN data THEN data[key] ELSE default

\* WebUIServer.handle_add_long_memory: the fields of the body, with their
\* defaults, go to add_memory and the id comes back as {"id": id}
handle_add_long_memory(data) ==
    /\ Callable
    /\ AddMemoryEffect(Get(data, "content", EmptyText), Get(data, "session_id", "manual"),
                       Get(data, "importance", 5), "{}")
    /\ result' = [op |-> "handle_add_long_memory",
                  content |-> Get(data, "content", EmptyText),
                  session |-> Get(data, "session_id", "manual"),
                  importance |-> Get(data, "importance", 5),
                  value |-> AddMemoryReturn, status |-> 200]
    /\ UNCHANGED <<stm_vars, now, thr_vars, proc_vars>>

\* the bodies that are posted: with a content, and without one
Bodies(id) ==
    {[session_id |-> "A", importance |-> ImportanceAt(id), content |-> LtmContentAt(id)],
     [session_id |-> "A", importance |-> ImportanceAt(id)]}

(***************************************************************************)
(* SpecLtm: the long-term engine, opened (or failing to open) on a data    *)
(* directory, fed records and queries, with the clock running and the      *)
(* process ended and started again.                                        *)
(***************************************************************************)
NextLtm ==
    \/ \E ok \in BOOLEAN : initialize(ok)
    \/ \E content \in LtmContents(ltm_seq + 1) :
           ltm_seq < MaxMem /\ add_memory(content, "A", ImportanceAt(ltm_seq + 1))
    \/ \E data \in Bodies(ltm_seq + 1) :
           ltm_seq < MaxMem /\ handle_add_long_memory(data)
    \/ \E query \in Queries, k \in TopK :
           /\ \A i \in 1..Len(ltm_db) : ltm_db[i].access_count < MaxAccess
           /\ search(query, k)
    \/ \E id \in 1..MaxMem : get_memory(id)
    \/ Return
    \/ Tick
    \/ Restart

SpecLtm == Init /\ [][NextLtm]_vars

(***************************************************************************)
(* Properties of search, add_memory and get_memory, checked under SpecLtm. *)
(***************************************************************************)
ReturnedIds == Range(Ids(result'.value))

\* C14: over one search call, every record whose id is returned has
\* access_count incremented by exactly 1 and last_accessed set to now, and
\* every record whose id is not returned keeps both.
C14_SearchBookkeeping ==
    [][(result = NoResult /\ result'.op = "search") =>
          /\ Len(ltm_db') = Len(ltm_db)
          /\ \A i \in 1..Len(ltm_db) :
                IF ltm_db[i].id \in ReturnedIds
                THEN /\ ltm_db'[i].access_count = ltm_db[i].access_count + 1
                     /\ ltm_db'[i].last_accessed = now
                ELSE /\ ltm_db'[i].access_count = ltm_db[i].access_count
                     /\ ltm_db'[i].last_accessed = ltm_db[i].last_accessed
      ]_vars

\* the records whose content overlaps the query
Overlapping(d, query) == {r \in Range(d) : Matches(query, r.content)}

\* C15: when the query is empty or no record overlaps it, search(query, k)
\* of an initialized engine returns the k most recently created records
\* (all of them when there are fewer), most recent first.
C15_FallbackToMostRecent ==
    [][(result = NoResult /\ result'.op = "search" /\ initialized
            /\ (result'.query = EmptyText \/ Overlapping(ltm_db, result'.query) = {}))
          => Ids(result'.value) \in
                 {Ids(p) : p \in OrderByCreatedAtDesc(Range(ltm_db), result'.k)}
      ]_vars

\* relevance = overlap * (0.5 + 0.5 * importance) * decay_score, times 20
\* (importance is in tenths), as the fraction RelevanceNum / decay_score.den;
\* overlap is 1 for a record that matches the query and 0 for one that does not
RelevanceNum(r, query) ==
    (IF Matches(query, r.content) THEN 1 ELSE 0) * (10 + r.importance) * r.decay_score.num

\* a is ranked before b: higher relevance, or equal relevance and created later
RankedBefore(a, b, query) ==
    LET ra == RelevanceNum(a, query) * b.decay_score.den
        rb == RelevanceNum(b, query) * a.decay_score.den
    IN  ra > rb \/ (ra = rb /\ a.created_at > b.created_at)

RowOf(d, id) == CHOOSE r \in Range(d) : r.id = id

\* C16: search returns its results in descending relevance, records of equal
\* relevance with the one created later first, and when more than k records
\* match, the k returned are the k highest ranked.
C16_RankedByRelevance ==
    [][(result = NoResult /\ result'.op = "search" /\ initialized
            /\ result'.query # EmptyText /\ Overlapping(ltm_db, result'.query) # {})
          => LET q == result'.query
                 ids == Ids(result'.value)
             IN  /\ \A i, j \in 1..Len(ids) :
                        i < j => ~RankedBefore(RowOf(ltm_db, ids[j]), RowOf(ltm_db, ids[i]), q)
                 /\ Cardinality(Overlapping(ltm_db, q)) > result'.k =>
                        /\ Len(ids) = result'.k
                        /\ \A r \in Overlapping(ltm_db, q) :
                               r.id \notin Range(ids) =>
                                   \A i \in 1..Len(ids) :
                                       ~RankedBefore(r, RowOf(ltm_db, ids[i]), q)
      ]_vars

\* C17: when at least one stored record overlaps the query and others do
\* not, the first result of search (k >= 1, initialized engine) is an
\* overlapping record: with "cats are great", "dogs are loyal" and
\* "I like pizza" stored, search("dog", 5) has "dogs are loyal" first.
C17_OverlappingRecordFirst ==
    [][(result = NoResult /\ result'.op = "search" /\ initialized /\ result'.k >= 1
            /\ Overlapping(ltm_db, result'.query) # {}
            /\ Overlapping(ltm_db, result'.query) # Range(ltm_db))
          => /\ Len(result'.value) >= 1
             /\ Matches(result'.query, result'.value[1].content)
      ]_vars

\* C18: search(query, k) returns at most k results for every k >= 0, the
\* returned ids are pairwise distinct, and each of them is the id of a row
\* of the table at the time of the call.
C18_AtMostKDistinctExisting ==
    [][(result = NoResult /\ result'.op = "search") =>
          LET ids == Ids(result'.value)
          IN  /\ Len(ids) <= result'.k
              /\ \A i, j \in 1..Len(ids) : i # j => ids[i] # ids[j]
              /\ \A i \in 1..Len(ids) :
                     \E r \in Range(ltm_db) :
                         r.id = ids[i] /\ r.content = result'.value[i].content
      ]_vars

\* a search has returned k = 1 result while two records and more match
C18_Witness ==
    /\ result.op = "search"
    /\ result.path = "lexical"
    /\ result.k = 1
    /\ Len(result.value) = 1
    /\ Cardinality(Overlapping(ltm_db, result.query)) >= 2

\* C19: for every non-empty content, session id and importance,
\* get_memory(add_memory(content, session_id, importance)) on an
\* initialized engine returns a record with that content, importance and
\* session id, and the stored row has access_count 0 and decay_score 1.0.
C19_AddGetRoundTrip ==
    [][(result = NoResult /\ result'.op = "add_memory" /\ initialized
            /\ result'.content # EmptyText)
          => LET got == GetMemory(ltm_db', result'.value)
                 row == RowOf(ltm_db', result'.value)
             IN  /\ got # None
                 /\ got.id = result'.value
                 /\ got.content = result'.content
                 /\ got.importance = result'.importance
                 /\ got.session_id = result'.session
                 /\ row.access_count = 0
                 /\ row.decay_score = [num |-> 1, den |-> 1]
      ]_vars

\* the second record has been added, next to a first one that a search has read
C19_Witness ==
    /\ result.op = "add_memory"
    /\ result.value = 2
    /\ result.content = DogsAreLoyal
    /\ result.importance = 9
    /\ Len(ltm_db) = 2
    /\ ltm_db[1].access_count = 1

\* C20: add_memory with empty content fails and leaves the store unchanged:
\* no row is inserted, no id is used and the count is the same; so it is for
\* every caller, handle_add_long_memory with a body without content included.
C20_EmptyContentRejected ==
    [][(result = NoResult /\ result'.op \in {"add_memory", "handle_add_long_memory"}
            /\ result'.content = EmptyText)
          => /\ ltm_db' = ltm_db
             /\ ltm_seq' = ltm_seq
             /\ vector_store' = vector_store
             /\ result'.value < 1
      ]_vars

(***************************************************************************)
(* LongTermMemoryEngine.apply_decay.                                       *)
(***************************************************************************)
\* decay_days * 24 * 3600, in seconds
DecayPeriod == decay_days * 24 * 3600

\* WHERE last_accessed < time.time() - decay_days * 24 * 3600
Stale(r, t) == r.last_accessed < t - DecayPeriod

\* SET decay_score = decay_score * 0.95
DecayedByTenth(r) ==
    [r EXCEPT !.decay_score = [num |-> @.num * 9, den |-> @.den * 10]]

DecayedTouches(r) ==
    [r EXCEPT !.decay_score = [num |-> @.num * 19, den |-> @.den * 20],
              !.last_accessed = 0]

Decayed(r) ==
    [r EXCEPT !.decay_score = [num |-> @.num * 19, den |-> @.den * 20]]

\* the UPDATE of apply_decay over the table
ApplyDecayToAll(d, t) == [i \in 1..Len(d) |-> Decayed(d[i])]

ApplyDecay(d, t) == [i \in 1..Len(d) |-> IF Stale(d[i], t) THEN Decayed(d[i]) ELSE d[i]]

apply_decay ==
    /\ Callable
    /\ IF ~initialized
       THEN UNCHANGED ltm_db
       ELSE ltm_db' = ApplyDecay(ltm_db, now)
    /\ result' = [op |-> "apply_decay", swept |-> initialized]
    /\ UNCHANGED <<stm_vars, now, thr_vars, proc_vars, ltm_seq, vector_store, initialized>>

(***************************************************************************)
(* SpecDecay: records are added and searched, decay periods pass, and      *)
(* apply_decay is called at any moment.                                    *)
(***************************************************************************)
\* more than a decay period passes
Age ==
    /\ now < MaxAges * DecayPeriod
    /\ result = NoResult
    /\ now' = now + DecayPeriod + 1
    /\ UNCHANGED <<stm_vars, thr_vars, proc_vars, ltm_vars, result>>

RECURSIVE Pow(_, _)
Pow(b, n) == IF n = 0 THEN 1 ELSE b * Pow(b, n - 1)

NextDecay ==
    \/ initialize(TRUE)
    \/ ltm_seq < MaxMem - 1
         /\ add_memory(LtmContentAt(ltm_seq + 1), "A", ImportanceAt(ltm_seq + 1))
    \/ \E query \in {<<"d","o","g">>, <<"A">>} :
           /\ \A i \in 1..Len(ltm_db) : ltm_db[i].access_count < MaxAccess
           /\ search(query, 1)
    \/ (\A i \in 1..Len(ltm_db) : ltm_db[i].decay_score.den < Pow(20, MaxSweeps))
         /\ apply_decay
    \/ Return
    \/ Age
    \/ Restart

SpecDecay == Init /\ [][NextDecay]_vars

\* a / b <= c / d for fractions with positive denominators
FracLeq(x, y) == x.num * y.den <= y.num * x.den

\* C21: the decay_score of a record never increases; a sweep multiplies it
\* by 0.95 exactly when it finds the record stale, so that after N such
\* sweeps it is 0.95^N of the original 1.0; it stays in (0, 1].
C21_DecayMonotone ==
    /\ [](\A i \in 1..Len(ltm_db) :
            /\ ltm_db[i].decay_score.num > 0
            /\ ltm_db[i].decay_score.num <= ltm_db[i].decay_score.den
            /\ \E n \in 0..MaxSweeps :
                   ltm_db[i].decay_score = [num |-> Pow(19, n), den |-> Pow(20, n)])
    /\ [][\A i \in 1..Len(ltm_db) :
            /\ Len(ltm_db') >= Len(ltm_db)
            /\ FracLeq(ltm_db'[i].decay_score, ltm_db[i].decay_score)
            /\ (result = NoResult /\ result'.op = "apply_decay" /\ initialized) =>
                   ltm_db'[i].decay_score =
                       IF ltm_db[i].last_accessed < now - DecayPeriod
                       THEN [num |-> ltm_db[i].decay_score.num * 19,
                             den |-> ltm_db[i].decay_score.den * 20]
                       ELSE ltm_db[i].decay_score
            /\ ~(result = NoResult /\ result'.op = "apply_decay" /\ initialized) =>
                   ltm_db'[i].decay_score = ltm_db[i].decay_score]_vars

\* a record no search has touched has been found stale by two sweeps, next
\* to a record that a search has kept fresh
C21_Witness ==
    /\ Len(ltm_db) = 2
    /\ ltm_db[1].access_count = 0
    /\ ltm_db[1].decay_score = [num |-> 361, den |-> 400]
    /\ ltm_db[2].access_count = 1
    /\ ltm_db[2].decay_score = [num |-> 19, den |-> 20]

(***************************************************************************)
(* SpecPlugin: the running plugin.  HybridMemoryPlugin starts _initialize  *)
(* as its only background task; after it, the engine is reached through   *)
(* the requests of the web UI and the commands, while time passes.  Every  *)
(* step the plugin can take is taken eventually.                           *)
(***************************************************************************)
NextPlugin ==
    \/ \E ok \in BOOLEAN : initialize(ok)
    \/ \E data \in Bodies(ltm_seq + 1) :
           ltm_seq < MaxMem - 1 /\ handle_add_long_memory(data)
    \/ \E query \in {<<"d","o","g">>, <<"b","i","r","d">>} :
           /\ \A i \in 1..Len(ltm_db) : ltm_db[i].access_count < MaxAccess
           /\ search(query, 1)
    \/ \E id \in 1..MaxMem : get_memory(id)
    \/ Return
    \/ Age

SpecPlugin == Init /\ [][NextPlugin]_vars /\ WF_vars(NextPlugin)

\* C22: the decay sweep runs periodically: a record whose last_accessed is
\* older than decay_days eventually has a decay_score below 1.0, unless a
\* search reads it first.
C22_SweepEventuallyRuns ==
    \A id \in 1..MaxMem :
        ((\E r \in Range(ltm_db) : r.id = id /\ Stale(r, now)
                                    /\ r.decay_score = [num |-> 1, den |-> 1])
          ~> (\E r \in Range(ltm_db) : r.id = id
                  /\ (~Stale(r, now) \/ r.decay_score.num < r.decay_score.den)))

(***************************************************************************)
(* LongTermMemoryEngine: update_memory, delete_memory, rebuild_index,      *)
(* get_all_memories, get_memory_count.  The methods of the short-term      *)
(* manager have the names update_memory and delete_memory here, so those   *)
(* of the engine are ltm_update_memory and ltm_delete_memory.  The methods *)
(* that do not test _initialized use self.db (or self.vector_store), which *)
(* exists only once initialize has opened the database: before that they   *)
(* raise AttributeError.                                                   *)
(***************************************************************************)
InLtm(d, id) == \E i \in 1..Len(d) : d[i].id = id

\* UPDATE memories SET content = ? WHERE id = ?
LtmUpdateRowResetsAccess(d, id, content) ==
    [i \in 1..Len(d) |->
        IF d[i].id = id THEN [d[i] EXCEPT !.content = content, !.access_count = 0]
        ELSE d[i]]

LtmUpdateRow(d, id, content) ==
    [i \in 1..Len(d) |-> IF d[i].id = id THEN [d[i] EXCEPT !.content = content] ELSE d[i]]

\* SimpleVectorStore.update: self.store[memory_id] = content (a dict keeps the
\* place of a key it already holds and puts a new key last)
StoreUpdate(store, id, content) ==
    IF \E i \in 1..Len(store) : store[i].id = id
    THEN [i \in 1..Len(store) |->
             IF store[i].id = id THEN [id |-> id, content |-> content] ELSE store[i]]
    ELSE Append(store, [id |-> id, content |-> content])

\* SimpleVectorStore.delete
StoreDeleteKeepsEntry(store, id) == store

StoreDelete(store, id) == SelectSeq(store, LAMBDA e : e.id # id)

ltm_update_memory(id, content) ==
    /\ Callable
    /\ IF ~initialized
       THEN /\ result' = [op |-> "ltm_update_memory", id |-> id, content |-> content,
                          raised |-> TRUE, value |-> FALSE]
            /\ UNCHANGED ltm_vars
       ELSE /\ ltm_db' = LtmUpdateRow(ltm_db, id, content)
            /\ vector_store' = IF InLtm(ltm_db, id)
                               THEN StoreUpdate(vector_store, id, content)
                               ELSE vector_store
            /\ result' = [op |-> "ltm_update_memory", id |-> id, content |-> content,
                          raised |-> FALSE, value |-> InLtm(ltm_db, id)]
            /\ UNCHANGED <<ltm_seq, initialized>>
    /\ UNCHANGED <<stm_vars, now, thr_vars, proc_vars>>

ltm_delete_memory(id) ==
    /\ Callable
    /\ IF ~initialized
       THEN /\ result' = [op |-> "ltm_delete_memory", id |-> id, raised |-> FALSE,
                          value |-> FALSE]
            /\ UNCHANGED ltm_vars
       ELSE /\ ltm_db' = SelectSeq(ltm_db, LAMBDA r : r.id # id)
            /\ vector_store' = StoreDelete(vector_store, id)
            /\ result' = [op |-> "ltm_delete_memory", id |-> id, raised |-> FALSE,
                          value |-> InLtm(ltm_db, id)]
            /\ UNCHANGED <<ltm_seq, initialized>>
    /\ UNCHANGED <<stm_vars, now, thr_vars, proc_vars>>

\* rebuild_index awaits vector_store.rebuild(), whose body is `pass`
rebuild_index ==
    /\ Callable
    /\ result' = [op |-> "rebuild_index", raised |-> ~initialized]
    /\ UNCHANGED <<stm_vars, now, thr_vars, proc_vars, ltm_vars>>

\* the dicts of get_all_memories
PageResult(rows) ==
    [i \in 1..Len(rows) |->
        [id |-> rows[i].id, session_id |-> rows[i].session_id,
         content |-> rows[i].content, importance |-> rows[i].importance,
         created_at |-> rows[i].created_at, access_count |-> rows[i].access_count]]

\* ORDER BY created_at DESC LIMIT limit OFFSET offset
get_all_memories(limit, offset) ==
    /\ Callable
    /\ IF ~initialized
       THEN result' = [op |-> "get_all_memories", raised |-> TRUE, value |-> << >>]
       ELSE \E rows \in OrderByCreatedAtDesc(Range(ltm_db), offset + limit) :
               result' = [op |-> "get_all_memories", raised |-> FALSE,
                          value |-> PageResult(SubSeq(rows, offset + 1, Len(rows)))]
    /\ UNCHANGED <<stm_vars, now, thr_vars, proc_vars, ltm_vars>>

\* SELECT COUNT(*) FROM memories
get_memory_count ==
    /\ Callable
    /\ result' = [op |-> "get_memory_count", raised |-> ~initialized,
                  value |-> IF initialized THEN Len(ltm_db) ELSE 0]
    /\ UNCHANGED <<stm_vars, now, thr_vars, proc_vars, ltm_vars>>

(***************************************************************************)
(* SpecAdmin: the engine under the management calls: records are added,    *)
(* rewritten, deleted, listed, counted and searched, the index is rebuilt, *)
(* and the process is ended and started again.                             *)
(***************************************************************************)
Birds == <<"b","i","r","d","s">>
AdminQueries == {<<"d","o","g">>, <<"b","i","r","d">>}

NextAdmin ==
    \/ \E ok \in BOOLEAN : initialize(ok)
    \/ ltm_seq < MaxMem - 1
         /\ add_memory(LtmContentAt(ltm_seq + 1), "A", ImportanceAt(ltm_seq + 1))
    \/ \E id \in 1..MaxMem : ltm_update_memory(id, Birds)
    \/ \E id \in 1..MaxMem : ltm_delete_memory(id)
    \/ rebuild_index
    \/ \E query \in AdminQueries :
           /\ \A i \in 1..Len(ltm_db) : ltm_db[i].access_count < MaxAccess
           /\ search(query, 2)
    \/ \E id \in 1..MaxMem : get_memory(id)
    \/ \E page \in {<<2, 0>>, <<1, 1>>} : get_all_memories(page[1], page[2])
    \/ get_memory_count
    \/ Return
    \/ Tick
    \/ Restart

SpecAdmin == Init /\ [][NextAdmin]_vars

(***************************************************************************)
(* Properties of the management calls, checked under SpecAdmin.            *)
(***************************************************************************)
\* the (id, content) pairs of an index and of the table
IndexOf(store) == {[id |-> e.id, content |-> e.content] : e \in Range(store)}
Canonical(d) == {[id |-> r.id, content |-> r.content] : r \in Range(d)}

\* C23: after rebuild_index on an initialized engine the index holds exactly
\* the ids of the rows of the table, each with its current content, also
\* when the index was empty or stale before the call.
C23_RebuildRestoresIndex ==
    [][(result = NoResult /\ result'.op = "rebuild_index" /\ initialized)
          => /\ ~result'.raised
             /\ IndexOf(vector_store') = Canonical(ltm_db')
             /\ ltm_db' = ltm_db
      ]_vars

LtmOps ==
    {"add_memory", "search", "ltm_delete_memory", "ltm_update_memory", "get_memory",
     "get_all_memories", "get_memory_count"}

\* C24: while the engine is not initialized every operation returns an empty
\* or failure result, raises nothing and changes no state.
C24_DisabledIsSafeNoOp ==
    [][(result = NoResult /\ result'.op \in LtmOps /\ ~initialized)
          => /\ UNCHANGED ltm_vars
             /\ result'.op = "add_memory" => result'.value = -1
             /\ result'.op = "search" => result'.value = << >>
             /\ result'.op \in {"ltm_delete_memory", "ltm_update_memory"} =>
                    (~result'.raised /\ result'.value = FALSE)
             /\ result'.op = "get_memory" => (~result'.raised /\ result'.value = None)
             /\ result'.op = "get_all_memories" =>
                    (~result'.raised /\ result'.value = << >>)
             /\ result'.op = "get_memory_count" => ~result'.raised
      ]_vars

\* C25: update_memory(id, content) of the engine on an existing id replaces
\* the content of that row and its indexed text and nothing else: the other
\* fields of the row and all other rows are unchanged; on an unknown id it
\* returns False and changes nothing.
C25_UpdateReplacesOnlyContent ==
    [][(result = NoResult /\ result'.op = "ltm_update_memory" /\ initialized)
          => LET id == result'.id
             IN  /\ result'.value = InLtm(ltm_db, id)
                 /\ ltm_seq' = ltm_seq
                 /\ Len(ltm_db') = Len(ltm_db)
                 /\ \A i \in 1..Len(ltm_db) :
                        IF ltm_db[i].id = id
                        THEN /\ ltm_db'[i] = [ltm_db[i] EXCEPT !.content = result'.content]
                             /\ [id |-> id, content |-> result'.content] \in IndexOf(vector_store')
                             /\ \A e \in IndexOf(vector_store') : e.id = id =>
                                    e.content = result'.content
                        ELSE ltm_db'[i] = ltm_db[i]
                 /\ \A e \in IndexOf(vector_store) : e.id # id => e \in IndexOf(vector_store')
                 /\ \A e \in IndexOf(vector_store') : e.id # id => e \in IndexOf(vector_store)
                 /\ ~result'.value => (ltm_db' = ltm_db /\ vector_store' = vector_store)
      ]_vars

\* a record that a search has read has been rewritten
C25_Witness ==
    /\ result.op = "ltm_update_memory"
    /\ result.value
    /\ \E r \in Range(ltm_db) :
           r.id = result.id /\ r.content = Birds /\ r.access_count = 1 /\ r.importance = 9
    /\ Len(ltm_db) = 2

\* C26: delete_memory(id) of the engine on an existing id returns True and
\* afterwards get_memory(id) finds nothing, neither the table nor the index
\* holds the id (so no search returns it) and the count is one less; on an
\* unknown id it returns False and changes neither the table nor the index.
C26_DeleteRemovesRecord ==
    [][(result = NoResult /\ result'.op = "ltm_delete_memory" /\ initialized)
          => LET id == result'.id
             IN  /\ result'.value = InLtm(ltm_db, id)
                 /\ GetMemory(ltm_db', id) = None
                 /\ \A e \in Range(vector_store') : e.id # id
                 /\ \A query \in AdminQueries \cup Queries :
                        id \notin Range(VectorSearch(vector_store', query, MaxMem))
                 /\ result'.value =>
                        /\ Len(ltm_db') = Len(ltm_db) - 1
                        /\ Range(ltm_db') = {r \in Range(ltm_db) : r.id # id}
                 /\ ~result'.value => (ltm_db' = ltm_db /\ vector_store' = vector_store)
      ]_vars

\* the first of two indexed records has been deleted
C26_Witness ==
    /\ result.op = "ltm_delete_memory"
    /\ result.value
    /\ result.id = 1
    /\ Len(ltm_db) = 1
    /\ Len(vector_store) = 1
    /\ vector_store[1].id = 2

(***************************************************************************)
(* MemoryProcessor.process_response.                                       *)
(***************************************************************************)
\* a text of n characters
Text(n) == [i \in 1..n |-> "a"]

\* len(content) > 100
StoresLongTermFrom100(content) == Len(content) >= response_min_length

StoresLongTerm(content) == Len(content) > response_min_length

\* _maybe_store_long_term
MaybeStoreLongTerm(s, content) ==
    IF StoresLongTerm(content)
    THEN AddMemoryEffect(content, s, 5, "{\"source\": \"response\"}")
    ELSE UNCHANGED ltm_vars

process_response(s, content) ==
    /\ Callable
    /\ AddMessageEffect(s, "assistant", content)
    /\ MaybeStoreLongTerm(s, content)
    /\ result' = [op |-> "process_response", session |-> s, content |-> content]
    /\ UNCHANGED <<now, thr_vars, proc_vars>>

\* process_response for an event without a session id
process_response_ignored ==
    /\ Callable
    /\ result' = [op |-> "process_response", session |-> "", content |-> << >>]
    /\ UNCHANGED <<stm_vars, now, thr_vars, proc_vars, ltm_vars>>

(***************************************************************************)
(* SpecResponse: messages and responses of one conversation, the responses *)
(* of lengths around the threshold, with the engine initialized or not.    *)
(***************************************************************************)
ResponseLengths == {0, 1, response_min_length, response_min_length + 1}

NextResponse ==
    \/ \E ok \in BOOLEAN : initialize(ok)
    \/ stm_seq < MaxResp /\ handle_message("A", Text(1), "ok")
    \/ \E s \in Sessions, n \in ResponseLengths :
           stm_seq < MaxResp /\ process_response(s, Text(n))
    \/ process_response_ignored
    \/ Return
    \/ Tick

SpecResponse == Init /\ [][NextResponse]_vars

\* C27: process_response appends the content to the short-term memory of the
\* session with role assistant; on an initialized engine it adds one
\* long-term record, with importance 0.5 and metadata source = response,
\* exactly when len(content) > 100; it never changes the message counter.
C27_ResponseStoredByLength ==
    [][(result = NoResult /\ result'.op = "process_response" /\ result'.session # "")
          => LET s == result'.session
                 c == result'.content
                 n == Len(stm_db')
                 m == Len(ltm_db')
             IN  /\ n = Len(stm_db) + 1
                 /\ SubSeq(stm_db', 1, n - 1) = stm_db
                 /\ stm_db'[n].session_id = s
                 /\ stm_db'[n].role = "assistant"
                 /\ stm_db'[n].content = c
                 /\ session_cache'[s][Len(session_cache'[s])].id = stm_db'[n].id
                 /\ session_cache'[s][Len(session_cache'[s])].role = "assistant"
                 /\ session_cache'[s][Len(session_cache'[s])].content = c
                 /\ message_counter' = message_counter
                 /\ IF initialized /\ Len(c) > 100
                    THEN /\ m = Len(ltm_db) + 1
                         /\ SubSeq(ltm_db', 1, m - 1) = ltm_db
                         /\ ltm_db'[m].content = c
                         /\ ltm_db'[m].session_id = s
                         /\ ltm_db'[m].importance = 5
                         /\ ltm_db'[m].metadata = "{\"source\": \"response\"}"
                    ELSE ltm_db' = ltm_db
      ]_vars

\* a response of 101 characters has been stored, after one of 100 characters
\* that was not, in a session whose counter is 1
C27_Witness ==
    /\ result.op = "process_response"
    /\ Len(result.content) = 101
    /\ Len(stm_db) = 3
    /\ Len(stm_db[2].content) = 100
    /\ Len(ltm_db) = 1
    /\ Len(ltm_db[1].content) = 101
    /\ Counter(result.session) = 1

(***************************************************************************)
(* MemoryProcessor.summarize_session started directly, as the summarize    *)
(* command of the plugin does.                                             *)
(***************************************************************************)
\* what get_session_context(session_id) can read: the resident window, or
\* the rows the lazy load selects
ContextLoads(s) ==
    IF s \in DOMAIN session_cache
    THEN {CachedWindow(s, default_limit)}
    ELSE {Reverse([i \in 1..Len(rows) |-> RowEntry(rows[i])]) :
             rows \in SelectTail(stm_db, s, LoadLimit(default_limit))}

\* the lazy load keeps what it read
CacheAfterContext(s, messages) ==
    IF s \in DOMAIN session_cache THEN session_cache
    ELSE Put(session_cache, s, messages)

\* summarize_session: "" without messages, else the summarizer is called
\* and its non-empty answer stored; `history` is the number of messages read
summarize_session(s, outcome) ==
    /\ Callable
    /\ \E messages \in ContextLoads(s) :
          /\ session_cache' = CacheAfterContext(s, messages)
          /\ IF messages = << >>
             THEN /\ UNCHANGED ltm_vars
                  /\ result' = [op |-> "summarize_session", session |-> s,
                                outcome |-> "none", history |-> 0, summary |-> ""]
             ELSE /\ SummaryStored(s, SummaryOf(outcome))
                  /\ result' = [op |-> "summarize_session", session |-> s,
                                outcome |-> outcome, history |-> Len(messages),
                                summary |-> SummaryOf(outcome)]
    /\ UNCHANGED <<stm_db, stm_seq, appends, now, thr_vars, proc_vars>>

(***************************************************************************)
(* SpecSummarize: messages below the threshold, summaries started          *)
(* directly, restarts.                                                     *)
(***************************************************************************)
NextSummarize ==
    \/ \E ok \in BOOLEAN : initialize(ok)
    \/ \E s \in Sessions : stm_seq < MaxTurns /\ handle_message(s, "x", "ok")
    \/ \E s \in Sessions, outcome \in Outcomes :
           ltm_seq < MaxSummaries /\ summarize_session(s, outcome)
    \/ Return
    \/ Tick
    \/ Restart

SpecSummarize == Init /\ [][NextSummarize]_vars

\* C28: on an initialized engine summarize_session adds exactly one
\* long-term record, with importance 0.7 and metadata type = summary, when
\* the session has messages and the summarizer answers a non-empty summary;
\* without messages, or when the summarizer answers nothing or raises, it
\* adds nothing and returns "".
C28_SummaryStoredOnce ==
    [][(result = NoResult /\ result'.op = "summarize_session")
          => LET s == result'.session
                 m == Len(ltm_db')
             IN  IF result'.history > 0 /\ result'.outcome = "ok"
                 THEN /\ result'.summary # ""
                      /\ initialized =>
                            /\ m = Len(ltm_db) + 1
                            /\ SubSeq(ltm_db', 1, m - 1) = ltm_db
                            /\ ltm_db'[m].content = result'.summary
                            /\ ltm_db'[m].session_id = s
                            /\ ltm_db'[m].importance = 7
                            /\ ltm_db'[m].metadata = "{\"type\": \"summary\"}"
                 ELSE /\ result'.summary = ""
                      /\ ltm_db' = ltm_db
                      /\ vector_store' = vector_store
      ]_vars

\* a summary of a session with messages has been returned and stored
C28_Witness ==
    /\ result.op = "summarize_session"
    /\ result.summary # ""
    /\ result.history > 0
    /\ Len(ltm_db) = 1
    /\ ltm_db[1].importance = 7
    /\ ltm_db[1].session_id = result.session

\* C29: after a summarize_session call that returned a summary and stored
\* it, the message counter of the session is 0.
C29_CounterResetByDirectSummary ==
    [][(result = NoResult /\ result'.op = "summarize_session"
            /\ initialized /\ result'.summary # "")
          => (result'.session \in DOMAIN message_counter'
                 => message_counter'[result'.session] = 0)
      ]_vars

(***************************************************************************)
(* MemoryRetriever: the memory context of a request and its injection.     *)
(* A text is the sequence of its pieces: the literals of the format        *)
(* strings, each as one piece (the headers and role labels, which the      *)
(* source writes in Chinese, are rendered in English), and the characters  *)
(* of the contents.                                                        *)
(***************************************************************************)
ShortHeader == "=== short-term memory (recent conversation) ==="
LongHeader == "=== long-term memory (related memories) ==="
UserLabel == "user"
AssistantLabel == "assistant"
ImportanceLabel == "[importance: "

\* text[:n]
Prefix(text, n) == SubSeq(text, 1, Min(Len(text), n))

\* sep.join(parts)
RECURSIVE Join(_, _)
Join(parts, sep) ==
    IF parts = << >> THEN << >>
    ELSE IF Len(parts) = 1 THEN parts[1]
    ELSE parts[1] \o <<sep>> \o Join(Tail(parts), sep)

\* memories[-10:]
RecentFromStart(memories) == SubSeq(memories, 1, Min(Len(memories), recent_messages))

Recent(memories) == NegSlice(memories, recent_messages)

RoleLabel(role) == IF role = "user" THEN UserLabel ELSE AssistantLabel

\* _format_short_term_memory
FormatShortTermMemory(memories) ==
    LET recent == Recent(memories)
    IN  Join([i \in 1..Len(recent) |->
                 <<RoleLabel(recent[i].role), ": ">>
                     \o Prefix(recent[i].content, shown_chars)],
             "\n")

\* f"{importance:.1f}" of an importance given in tenths
Digit(n) == <<"0", "1", "2", "3", "4", "5", "6", "7", "8", "9">>[n + 1]
OneDecimal(tenths) == <<Digit(tenths \div 10), ".", Digit(tenths % 10)>>

\* _format_long_term_memory
FormatLongTermMemory(memories) ==
    Join([i \in 1..Len(memories) |->
             <<ImportanceLabel>> \o OneDecimal(memories[i].importance) \o <<"] ">>
                 \o (IF Len(memories[i].content) > shown_chars
                     THEN Prefix(memories[i].content, shown_chars) \o <<"...">>
                     ELSE memories[i].content)],
         "\n")

\* _extract_query_from_request: the content of the last message, or ""
ExtractQueryFromRequest(req) ==
    IF req.messages # << >>
    THEN Prefix(req.messages[Len(req.messages)].content, query_chars)
    ELSE EmptyText

\* what long_term_memory.search(query, k) can return, and the table it leaves
SearchOutcomes(query, k) ==
    IF ~initialized
    THEN {[value |-> << >>, db |-> ltm_db]}
    ELSE LET candidate_ids == VectorSearch(vector_store, query, k * 2)
         IN  IF candidate_ids = << >>
             THEN {[value |-> FallbackResult(rows), db |-> ltm_db] :
                      rows \in OrderByCreatedAtDesc(Range(ltm_db), k)}
             ELSE {[value |-> LexicalResult(Take(rows, k)),
                    db |-> Touch(ltm_db, candidate_ids, now)] :
                      rows \in SelectIdIn(ltm_db, candidate_ids)}

\* the long-term memories of the request: none without a query
LongMemories(query) ==
    IF query # EmptyText THEN SearchOutcomes(query, retrieval_top_k)
    ELSE {[value |-> << >>, db |-> ltm_db]}

\* _build_memory_context, from what the two stores returned
BuildMemoryContext(short_memories, long_memories) ==
    LET short_part == IF short_memories # << >>
                      THEN << <<ShortHeader, "\n">> \o FormatShortTermMemory(short_memories) >>
                      ELSE << >>
        long_part == IF long_memories # << >>
                     THEN << <<LongHeader, "\n">> \o FormatLongTermMemory(long_memories) >>
                     ELSE << >>
    IN  Join(short_part \o long_part, "\n\n")

\* req.system_prompt after inject_memory
Injected(system_prompt, memory_context) ==
    IF memory_context # << >>
    THEN system_prompt \o <<"\n\n[memory context]\n">> \o memory_context
             \o <<"\n[/memory context]\n">>
    ELSE system_prompt

\* inject_memory; `short` and `long` keep what the two stores returned and
\* `context` what _build_memory_context made of it
InjectMemoryBody(s, req, op) ==
    /\ \E messages \in ContextLoads(s) :
       \E found \in LongMemories(ExtractQueryFromRequest(req)) :
          LET memory_context == BuildMemoryContext(Project(messages), found.value)
          IN  /\ session_cache' = CacheAfterContext(s, messages)
              /\ ltm_db' = found.db
              /\ result' = [op |-> op, session |-> s, req |-> req,
                            short |-> Project(messages), long |-> found.value,
                            context |-> memory_context,
                            system_prompt |-> Injected(req.system_prompt, memory_context)]
    /\ UNCHANGED <<stm_db, stm_seq, appends, now, thr_vars, proc_vars, ltm_seq,
                   vector_store, initialized>>

inject_memory(s, req) ==
    /\ Callable
    /\ InjectMemoryBody(s, req, "inject_memory")

\* inject_memory called once more with the request object it has just
\* changed
inject_memory_again ==
    /\ lock = NoThread
    /\ result # NoResult
    /\ result.op = "inject_memory"
    /\ InjectMemoryBody(result.session,
                        [result.req EXCEPT !.system_prompt = result.system_prompt],
                        "inject_memory_again")

(***************************************************************************)
(* SpecInject: a conversation of alternating messages and responses in     *)
(* session A, records added to the long-term store, and requests of both   *)
(* sessions, with and without a query, passed through inject_memory.       *)
(***************************************************************************)
Hi == <<"h", "i">>
Hello == <<"h", "e", "l", "l", "o">>

Requests ==
    {[system_prompt |-> p, messages |-> ms] :
        p \in {EmptyText, <<"S">>},
        ms \in {<< >>,
                <<[role |-> "user", content |-> Hi],
                  [role |-> "user", content |-> <<"d", "o", "g">>]>>,
                <<[role |-> "user", content |-> <<"b", "i", "r", "d">>]>>,
                <<[role |-> "user", content |-> EmptyText]>>,
                <<[role |-> "user", content |-> <<"d", "o", "g">>],
                  [role |-> "assistant", content |-> <<"c", "a", "t">>]>>,
                <<[role |-> "system", content |-> <<"c", "a", "t">>]>>}}

NextInject ==
    \/ \E ok \in BOOLEAN : initialize(ok)
    \/ stm_seq < MaxWindow /\ stm_seq % 2 = 0 /\ handle_message("A", Hi, "ok")
    \/ stm_seq < MaxWindow /\ stm_seq % 2 = 1 /\ process_response("A", Hello)
    \/ ltm_seq < MaxMem - 1
         /\ add_memory(LtmContentAt(ltm_seq + 1), "A", ImportanceAt(ltm_seq + 1))
    \/ \E s \in Sessions, req \in Requests :
           /\ \A i \in 1..Len(ltm_db) : ltm_db[i].access_count < MaxAccess
           /\ inject_memory(s, req)
    \/ Return

SpecInject == Init /\ [][NextInject]_vars

Positions(text, piece) == {i \in 1..Len(text) : text[i] = piece}

\* the role labels of a text, in their order
LabelsOf(text) == SelectSeq(text, LAMBDA p : p \in {UserLabel, AssistantLabel})

\* the role labels of the last ten messages (of all when there are fewer)
LabelsOfLastTen(short) ==
    LET n == Min(Len(short), 10)
    IN  [i \in 1..n |-> RoleLabel(short[Len(short) - n + i].role)]

\* C30: the context starts with the short-term section, one line per message
\* of the last 10 of get_session_context, and the long-term section, one
\* line per record found, comes after it; a section is there, with its
\* header, exactly when its source is not empty; when both sources are empty
\* the context is "" and inject_memory leaves req.system_prompt as it was.
C30_ContextSections ==
    [][(result = NoResult /\ result'.op = "inject_memory")
          => LET short == result'.short
                 long == result'.long
                 context == result'.context
                 sh == Positions(context, ShortHeader)
                 lh == Positions(context, LongHeader)
                 lines == Positions(context, UserLabel) \cup Positions(context, AssistantLabel)
                 records == Positions(context, ImportanceLabel)
             IN  /\ sh = IF short # << >> THEN {1} ELSE {}
                 /\ Cardinality(lh) = IF long # << >> THEN 1 ELSE 0
                 /\ \A i \in sh \cup lines, j \in lh \cup records : i < j
                 /\ \A i \in lines, j \in sh : j < i
                 /\ \A i \in records, j \in lh : j < i
                 /\ LabelsOf(context) = LabelsOfLastTen(short)
                 /\ Cardinality(records) = Len(long)
                 /\ (short = << >> /\ long = << >>)
                       => /\ context = << >>
                          /\ result'.system_prompt = result'.req.system_prompt
      ]_vars

\* a context with both sections has been injected, the session having one
\* message more than the section shows
C30_Witness ==
    /\ result.op = "inject_memory"
    /\ Len(result.short) = 11
    /\ Len(result.long) = 2
    /\ ShortHeader \in Range(result.context)
    /\ LongHeader \in Range(result.context)
    /\ result.system_prompt # result.req.system_prompt


\* the request ends with a message of the user: its content is the query
UserQuery(req) ==
    /\ req.messages # << >>
    /\ req.messages[Len(req.messages)].role = "user"

\* C31: for a session without short-term messages and a query of the user
\* that matches no record of the long-term store, the memory context is "".
C31_NoHistoryNoMatchEmptyContext ==
    [][(result = NoResult /\ result'.op = "inject_memory"
            /\ result'.short = << >>
            /\ UserQuery(result'.req)
            /\ \A i \in 1..Len(ltm_db) :
                   ~Matches(result'.req.messages[Len(result'.req.messages)].content,
                            ltm_db[i].content))
          => result'.context = << >>
      ]_vars


\* the most recent message of the user in the request, cut to 500
\* characters; "" when there is none
LastUserUtterance(req) ==
    LET users == SelectSeq(req.messages, LAMBDA m : m.role = "user")
    IN  IF users = << >> THEN EmptyText
        ELSE Prefix(users[Len(users)].content, 500)

\* C32: the query of the long-term search is the most recent message of the
\* user in the request; without one (no messages, only messages of other
\* roles, or an empty text) the search is skipped: no long-term section and
\* no change of access_count or last_accessed.
C32_QueryIsLastUserUtterance ==
    [][(result = NoResult /\ result'.op = "inject_memory")
          => /\ ExtractQueryFromRequest(result'.req) = LastUserUtterance(result'.req)
             /\ LastUserUtterance(result'.req) = EmptyText
                   => /\ result'.long = << >>
                      /\ LongHeader \notin Range(result'.context)
                      /\ ltm_db' = ltm_db
      ]_vars


(***************************************************************************)
(* SpecReinject: SpecInject, with requests that pass through inject_memory *)
(* a second time.                                                          *)
(***************************************************************************)
NextReinject ==
    \/ NextInject
    \/ inject_memory_again

SpecReinject == Init /\ [][NextReinject]_vars

\* C33: a second inject_memory on the same request leaves system_prompt as
\* the first made it: it holds at most one memory block.
C33_InjectionIdempotent ==
    [][(result.op = "inject_memory" /\ result'.op = "inject_memory_again")
          => /\ result'.system_prompt = result.system_prompt
             /\ Cardinality(Positions(result'.system_prompt,
                                      "\n\n[memory context]\n")) <= 1
      ]_vars


(***************************************************************************)
(* HybridMemoryPlugin: the _initialize task, the event hooks and           *)
(* terminate.  An event passes handle_memory_recall, its request goes to   *)
(* the provider, and when the provider has answered handle_memory_storage  *)
(* runs; the plugin keeps no trace of such an event.  _background_tasks    *)
(* holds the _initialize task only, and is followed here only.             *)
(***************************************************************************)
\* the _initialize task runs: LongTermMemoryEngine.initialize, then the done
\* callback discards the task
plugin_initialize(ok) ==
    /\ Callable
    /\ "_initialize" \in background_tasks
    /\ terminating = "no"
    /\ ~initialized
    /\ IF ok
       THEN /\ initialized' = TRUE
            /\ vector_store' = << >>
       ELSE UNCHANGED <<initialized, vector_store>>
    /\ background_tasks' = background_tasks \ {"_initialize"}
    /\ UNCHANGED <<stm_vars, now, thr_vars, message_counter, inflight, calls, fired,
                   awaiting, terminating, closed, ltm_db, ltm_seq, result>>

\* the rows the events under way will have inserted: those in the table and
\* one for each event with the provider
Handled == stm_seq + awaiting["A"] + awaiting["B"]

\* the request of an event of session s has passed handle_memory_recall and
\* is sent to the provider
provider_call(s) ==
    /\ Callable
    /\ closed = {}
    /\ Handled < MaxEvents
    /\ awaiting' = [awaiting EXCEPT ![s] = @ + 1]
    /\ UNCHANGED <<stm_vars, now, thr_vars, message_counter, inflight, calls, fired,
                   background_tasks, terminating, closed, ltm_vars, result>>

\* the provider has answered: handle_memory_storage runs process_response,
\* whose add_message asks the connection for a cursor, which raises when the
\* connection is closed; `wrote` keeps the stores the call wrote to, or
\* tried to
handle_memory_storage(s, content) ==
    /\ Callable
    /\ awaiting[s] > 0
    /\ awaiting' = [awaiting EXCEPT ![s] = @ - 1]
    /\ IF "short_term" \in closed
       THEN /\ result' = [op |-> "process_response", session |-> s,
                          content |-> content, wrote |-> {"short_term"},
                          raised |-> TRUE]
            /\ UNCHANGED <<stm_vars, ltm_vars>>
       ELSE /\ AddMessageEffect(s, "assistant", content)
            /\ MaybeStoreLongTerm(s, content)
            /\ result' = [op |-> "process_response", session |-> s,
                          content |-> content,
                          wrote |-> {"short_term"} \cup
                                    (IF initialized /\ StoresLongTerm(content)
                                     THEN {"long_term"} ELSE {}),
                          raised |-> FALSE]
    /\ UNCHANGED <<now, thr_vars, message_counter, inflight, calls, fired,
                   background_tasks, terminating, closed>>

\* terminate, up to the await of gather: the tasks that are not done are
\* cancelled
terminate_begin ==
    /\ Callable
    /\ terminating = "no"
    /\ terminating' = "gather"
    /\ UNCHANGED <<stm_vars, now, thr_vars, message_counter, inflight, calls, fired,
                   background_tasks, awaiting, closed, ltm_vars, result>>

\* a cancelled task ends
task_cancelled ==
    /\ terminating = "gather"
    /\ background_tasks # {}
    /\ background_tasks' = {}
    /\ UNCHANGED <<stm_vars, now, thr_vars, message_counter, inflight, calls, fired,
                   awaiting, terminating, closed, ltm_vars, result>>

\* terminate after gather: the web UI is stopped, the connection of the
\* engine is closed when it has one, then that of the short-term manager
terminate_close ==
    /\ Callable
    /\ terminating = "gather"
    /\ background_tasks = {}
    /\ closed' = {"short_term"} \cup (IF initialized THEN {"long_term"} ELSE {})
    /\ terminating' = "done"
    /\ UNCHANGED <<stm_vars, now, thr_vars, message_counter, inflight, calls, fired,
                   background_tasks, awaiting, ltm_vars, result>>

NextShutdown ==
    \/ \E ok \in BOOLEAN : plugin_initialize(ok)
    \/ \E s \in Sessions :
           closed = {} /\ Handled < MaxEvents /\ handle_message(s, Text(1), "ok")
    \/ \E s \in Sessions : provider_call(s)
    \/ \E s \in Sessions, n \in {1, response_min_length + 1} :
           handle_memory_storage(s, Text(n))
    \/ terminate_begin
    \/ task_cancelled
    \/ terminate_close
    \/ Return

SpecShutdown == Init /\ [][NextShutdown]_vars

\* C34: when a connection has been closed no background task is left, and
\* the handler of an event that was under way when terminate started never
\* writes, or tries to write, to a store whose connection is closed.
C34_NoWriteAfterClose ==
    /\ [](closed # {} => background_tasks = {})
    /\ [][(result = NoResult /\ result'.op = "process_response")
            => result'.wrote \cap closed = {}
         ]_vars


\* x = y * 19/20 for fractions
IsNineteenTwentieths(x, y) == x.num * y.den * 20 = y.num * 19 * x.den

\* C35: apply_decay multiplies decay_score by 0.95 for exactly the records
\* whose last_accessed is older than now - decay_days; the other records keep
\* their decay_score, no row is deleted or added, and every other column of
\* every row, and the index, stay as they were.
C35_DecayTouchesOnlyStaleScores ==
    [][(result = NoResult /\ result'.op = "apply_decay" /\ initialized)
          => /\ Len(ltm_db') = Len(ltm_db)
             /\ vector_store' = vector_store
             /\ \A i \in 1..Len(ltm_db) :
                   /\ [ltm_db'[i] EXCEPT !.decay_score = ltm_db[i].decay_score] = ltm_db[i]
                   /\ IF ltm_db[i].last_accessed < now - decay_days * 24 * 3600
                      THEN IsNineteenTwentieths(ltm_db'[i].decay_score, ltm_db[i].decay_score)
                      ELSE ltm_db'[i].decay_score = ltm_db[i].decay_score
      ]_vars

\* a sweep has run over a record that was read once and then left alone for
\* more than decay_days, and over a record added after that
C35_Witness ==
    /\ result.op = "apply_decay"
    /\ Len(ltm_db) = 2
    /\ ltm_db[1].access_count = 1
    /\ ltm_db[1].last_accessed < now - decay_days * 24 * 3600
    /\ ltm_db[1].decay_score = [num |-> 19, den |-> 20]
    /\ ltm_db[2].last_accessed = now
    /\ ltm_db[2].decay_score = [num |-> 1, den |-> 1]


(***************************************************************************)
(* SpecAccess: every call of the engine that reads or rewrites records,    *)
(* with decay periods passing.                                             *)
(***************************************************************************)
NextAccess ==
    \/ initialize(TRUE)
    \/ ltm_seq < MaxMem - 1
         /\ add_memory(LtmContentAt(ltm_seq + 1), "A", ImportanceAt(ltm_seq + 1))
    \/ \E query \in AdminQueries :
           /\ \A i \in 1..Len(ltm_db) : ltm_db[i].access_count < MaxAccess
           /\ search(query, 2)
    \/ \E id \in 1..MaxMem : get_memory(id)
    \/ \E id \in 1..MaxMem : ltm_update_memory(id, Birds)
    \/ get_all_memories(2, 0)
    \/ get_memory_count
    \/ rebuild_index
    \/ (\A i \in 1..Len(ltm_db) : ltm_db[i].decay_score.den < Pow(20, MaxSweeps))
         /\ apply_decay
    \/ Return
    \/ Age

SpecAccess == Init /\ [][NextAccess]_vars

\* the record of the table with this id is in both tables
Kept(i, j) == ltm_db[i].id = ltm_db'[j].id

\* C36: access_count is never negative and never decreases, and a step that
\* changes access_count or last_accessed of a record is a search: add_memory,
\* get_memory, update_memory, get_all_memories, get_memory_count, apply_decay
\* and rebuild_index leave both columns of every record as they were.
C36_AccessCountOnlyBySearch ==
    /\ [](\A i \in 1..Len(ltm_db) : ltm_db[i].access_count >= 0)
    /\ [][\A i \in 1..Len(ltm_db), j \in 1..Len(ltm_db') :
             Kept(i, j) =>
               /\ ltm_db'[j].access_count >= ltm_db[i].access_count
               /\ (ltm_db'[j].access_count # ltm_db[i].access_count
                     \/ ltm_db'[j].last_accessed # ltm_db[i].last_accessed)
                    => result'.op = "search"
         ]_vars

\* a record that a search has read has since been rewritten by
\* update_memory and decayed by apply_decay
C36_Witness ==
    /\ result.op = "apply_decay"
    /\ Len(ltm_db) = 2
    /\ ltm_db[2].access_count = 1
    /\ ltm_db[2].content = Birds
    /\ ltm_db[2].decay_score = [num |-> 19, den |-> 20]
    /\ ltm_db[2].last_accessed < now


(***************************************************************************)
(* SpecLocal: the calls that name a session, made for session A next to a  *)
(* session B that has received a message.  Session A is followed past the  *)
(* threshold, with every outcome of the summarizer; the other calls and    *)
(* restarts occur among its first messages.                                *)
(***************************************************************************)
NextLocal ==
    \/ initialize(TRUE)
    \/ \E o \in Outcomes : stm_seq < MaxLocal /\ handle_message("A", Text(1), o)
    \/ calls["B"] < MaxOther /\ stm_seq < MaxEarly /\ handle_message("B", Text(1), "ok")
    \/ \E s \in Sessions, n \in {1, response_min_length + 1} :
           stm_seq < MaxEarly /\ process_response(s, Text(n))
    \/ \E s \in Sessions : stm_seq < MaxEarly /\ add_message(s, "user", Text(1))
    \/ \E s \in Sessions : stm_seq <= MaxEarly /\ get_session_messages(s, max_messages)
    \/ \E s \in Sessions : stm_seq <= MaxEarly /\ clear_session(s)
    \/ stm_seq <= MaxEarly /\ Restart
    \/ Return

SpecLocal == Init /\ [][NextLocal]_vars

\* the window of a session, or None when the session is not resident
WindowOf(cache, s) == IF s \in DOMAIN cache THEN cache[s] ELSE None

\* C37: handle_message, process_response, add_message, get_session_messages
\* and clear_session for one session, whatever their outcome, leave the
\* counter, the window and the rows of the table of every other session as
\* they were.
C37_SessionLocal ==
    [][(result = NoResult
          /\ result'.op \in {"handle_message", "process_response", "add_message",
                             "get_session_messages", "clear_session"})
          => \A o \in Sessions \ {result'.session} :
                /\ (o \in DOMAIN message_counter') = (o \in DOMAIN message_counter)
                /\ o \in DOMAIN message_counter => message_counter'[o] = message_counter[o]
                /\ (o \in DOMAIN session_cache') = (o \in DOMAIN session_cache)
                /\ o \in DOMAIN session_cache => session_cache'[o] = session_cache[o]
                /\ SessionRows(stm_db', o) = SessionRows(stm_db, o)
      ]_vars

\* session A has reached the threshold with a summarizer that raised, while
\* session B holds a message, in its window, its rows and its counter
C37_Witness ==
    /\ result.op = "handle_message"
    /\ result.session = "A"
    /\ result.summarized
    /\ result.outcome = "raises"
    /\ Counter("B") = 1
    /\ "B" \in DOMAIN session_cache
    /\ Len(session_cache["B"]) = 1
    /\ Len(SessionRows(stm_db, "B")) = 1


(***************************************************************************)
(* SpecRecall: requests pass through inject_memory in a short              *)
(* conversation, also after the plugin has been started again, when the    *)
(* window of the session is not resident.                                  *)
(***************************************************************************)
RecallRequests ==
    {req \in Requests : req.system_prompt = EmptyText /\ Len(req.messages) = 2}

NextRecall ==
    \/ initialize(TRUE)
    \/ stm_seq < MaxTurns /\ handle_message("A", Hi, "ok")
    \/ stm_seq < MaxTurns /\ process_response("A", Hello)
    \/ ltm_seq < MaxMem - 1
         /\ add_memory(LtmContentAt(ltm_seq + 1), "A", ImportanceAt(ltm_seq + 1))
    \/ \E s \in Sessions, req \in RecallRequests :
           /\ \A i \in 1..Len(ltm_db) : ltm_db[i].access_count < MaxAccess
           /\ inject_memory(s, req)
    \/ Return
    \/ Restart

SpecRecall == Init /\ [][NextRecall]_vars

\* a row of memories without the columns search keeps
Unread(r) == [r EXCEPT !.last_accessed = 0, !.access_count = 0]

\* C38: inject_memory leaves the rows of short_term_memories and the message
\* counters as they were, and content, importance, decay_score and every
\* other column of the rows of memories except last_accessed and
\* access_count; the index is unchanged; of the windows it changes at most
\* that of its session, and only by loading it from the table when it was
\* not resident.
C38_InjectionReadOnly ==
    [][(result = NoResult /\ result'.op = "inject_memory")
          => LET s == result'.session
             IN  /\ stm_db' = stm_db
                 /\ stm_seq' = stm_seq
                 /\ message_counter' = message_counter
                 /\ ltm_seq' = ltm_seq
                 /\ vector_store' = vector_store
                 /\ Len(ltm_db') = Len(ltm_db)
                 /\ \A i \in 1..Len(ltm_db) : Unread(ltm_db'[i]) = Unread(ltm_db[i])
                 /\ \A o \in DOMAIN session_cache :
                       o \in DOMAIN session_cache' /\ session_cache'[o] = session_cache[o]
                 /\ DOMAIN session_cache' \subseteq DOMAIN session_cache \cup {s}
                 /\ s \notin DOMAIN session_cache
                       => /\ Len(session_cache'[s]) = Len(SessionRows(stm_db, s))
                          /\ \A i \in 1..Len(session_cache'[s]) :
                                \E r \in Range(SessionRows(stm_db, s)) :
                                    session_cache'[s][i] = RowEntry(r)
      ]_vars

\* after a restart inject_memory has loaded the window of the session and
\* its search has read a record
C38_Witness ==
    /\ result.op = "inject_memory"
    /\ message_counter = << >>
    /\ Len(result.short) = 2
    /\ result.session \in DOMAIN session_cache
    /\ Len(result.long) = 1
    /\ \E i \in 1..Len(ltm_db) : ltm_db[i].access_count = 1


(***************************************************************************)
(* SpecReset: messages of session A, with resets of the session.  The      *)
(* reset command and the hook that follows a sent message both call        *)
(* clear_session of the short-term manager and nothing else.               *)
(***************************************************************************)
reset(s) == clear_session(s)

NextReset ==
    \/ \E ok \in BOOLEAN : initialize(ok)
    \/ calls["A"] < MaxCallsR /\ handle_message("A", "x", "ok")
    \/ reset("A")
    \/ Return

SpecReset == Init /\ [][NextReset]_vars

\* C39: a summarization fires in handle_message only when the session has
\* received summary_threshold messages since it was last reset, that is,
\* when the table holds at least that many rows of the session.
C39_CounterRestartsAtReset ==
    [][(result = NoResult /\ result'.op = "handle_message" /\ result'.summarized)
          => Len(SessionRows(stm_db', result'.session)) >= summary_threshold
      ]_vars

=============================================================================
